---- MODULE Spec2Model ----
(***************************************************************************)
(* Publish queue and index synchronisation engine of meridian/jasper:      *)
(* the two JSON index stores (jasper_arweave.py, jasper_atproto.py), the    *)
(* per-network batch drivers and the app actions that start them           *)
(* (jasper.py).                                                            *)
(*                                                                         *)
(* Strings that the index sanitiser can touch (identifiers, titles) are    *)
(* sequences of one-character strings; transaction ids, links and post     *)
(* urls are atomic tokens (their alphabets hold no comma).                  *)
(***************************************************************************)
EXTENDS Integers, Sequences, FiniteSets, TLC

VARIABLES
    archive_json,   \* contents of data/archive.json
    archive_bak,    \* contents of data/archive.json.bak
    archive_tmp,    \* contents of data/archive.tmp
    posts_json,     \* contents of data/atproto_posts.json
    posts_bak,      \* contents of data/atproto_posts.json.bak (never written by the code)
    TEST_MODE,      \* jasper_arweave.TEST_MODE and jasper_atproto.TEST_MODE
    active_arweave_task, \* JasperApp._active_arweave_task
    tasks,          \* the unfinished publish tasks, in creation order
    confirmed,      \* publish batches confirmed so far
    clock,          \* datetime.now(UTC), counted in publishes
    faults,         \* saves so far in which a system call failed
    saved,          \* history: the results whose save returned True
    out,            \* what the latest step notified and returned, if a batch driver took it
    store,          \* a save call in progress, one system call per step
    reader,         \* what an outside reader of an index file last observed
    probe,          \* a caller of the status resolver: its arguments and results
    deploy,         \* a call of _execute_arkb_deploy: what arkb printed, the value returned
    queued_files,   \* ContentTree.queued_files
    queued_files_for_arweave, \* JasperApp._queued_files_for_arweave
    current_file,   \* FilePreview.current_file, which the AT Protocol widgets follow
    arweave_index_data, \* FilePreview._arweave_index_data
    post_index_data,    \* ATProtoPreview._post_index_data
    file_status,    \* the Arweave status FilePreview shows
    post_status,    \* the status ATProtoPreview resolved for its footer
    stats,          \* ArweaveQueueStats: file_count, total_cost, wallet_balance
    stats_tasks,    \* the update_arweave_stats_async tasks created and not yet finished
    active_protocol \* the panel of the right side that is not hidden

diskvars == <<archive_json, archive_bak, archive_tmp, posts_json, posts_bak>>
uivars == <<queued_files, queued_files_for_arweave, current_file, arweave_index_data,
            post_index_data, file_status, post_status, stats, stats_tasks, active_protocol>>
appvars == <<TEST_MODE, active_arweave_task, tasks, confirmed, clock, faults, saved, out, uivars>>
harnessvars == <<store, reader, probe, deploy>>
vars == <<archive_json, archive_bak, archive_tmp, posts_json, posts_bak,
          TEST_MODE, active_arweave_task, tasks, confirmed, clock, faults, saved, out,
          store, reader, probe, deploy,
          queued_files, queued_files_for_arweave, current_file, arweave_index_data,
          post_index_data, file_status, post_status, stats, stats_tasks, active_protocol>>

(***************************************************************************)
(* Bounds                                                                  *)
(***************************************************************************)
MaxRecs == 2        \* records in a sequence handed to save by the store harness
MaxSaves == 2       \* save calls made by the store harness on its index
MaxBatches == 2     \* publish batches confirmed in the app
MaxLive == 2        \* publish tasks unfinished at the same time
MaxBatchLen == 2    \* files queued for one Arweave batch
MaxFaults == 1      \* saves of the batches in which a system call fails
MaxBalance == 1     \* the amount arkb balance reports
MaxStatsTasks == 2  \* stats tasks created while the tasks are followed step by step
MaxPieces == 2      \* pieces of text in the output of one arkb deploy

(***************************************************************************)
(* Text of a file.  shape: "absent" (no file), "truncated" (a partial or   *)
(* otherwise unparsable text), "array" (well-formed JSON whose top level   *)
(* is not an object), "object" (a JSON object with the single key `key`).  *)
(* is_list tells whether the value under the key is a list, records is     *)
(* that list, trailing tells whether the text carries trailing commas      *)
(* before a closing brace or bracket.                                      *)
(***************************************************************************)
Text(shape, key, is_list, trailing, records) ==
    [shape |-> shape, key |-> key, is_list |-> is_list,
     trailing |-> trailing, records |-> records]

Absent == Text("absent", "", FALSE, FALSE, <<>>)
Truncated == Text("truncated", "", FALSE, FALSE, <<>>)
JSONDecodeError == Text("error", "", FALSE, FALSE, <<>>)

Exists(text) == text.shape # "absent"

\* json.dump writing the list back to front
json_dump_reversed(key, records) ==
    Text("object", key, TRUE, FALSE, [i \in 1..Len(records) |-> records[Len(records) + 1 - i]])

\* json.dump({key: records}, f, indent=2): an object, no trailing commas
json_dump(key, records) == Text("object", key, TRUE, FALSE, records)

\* json.loads / json.load: fails on truncated text and on trailing commas
json_loads(text) ==
    IF text.shape = "truncated" \/ text.trailing THEN JSONDecodeError ELSE text

(***************************************************************************)
(* re.sub(r",\s*}", "}", s) and re.sub(r",\s*]", "]", s): one pass from    *)
(* the left over non-overlapping matches.                                  *)
(***************************************************************************)
Whitespace == {" "}

RECURSIVE SkipWhitespace(_, _)
SkipWhitespace(s, j) ==
    IF j <= Len(s) /\ s[j] \in Whitespace THEN SkipWhitespace(s, j + 1) ELSE j

RECURSIVE ReSubFrom(_, _, _)
ReSubFrom(s, i, close) ==
    IF i > Len(s) THEN <<>>
    ELSE IF s[i] = ","
         THEN LET j == SkipWhitespace(s, i + 1)
              IN  IF j <= Len(s) /\ s[j] = close
                  THEN <<close>> \o ReSubFrom(s, j + 1, close)
                  ELSE <<s[i]>> \o ReSubFrom(s, i + 1, close)
         ELSE <<s[i]>> \o ReSubFrom(s, i + 1, close)

re_sub(s, close) == ReSubFrom(s, 1, close)

SanitizeStr(s) == re_sub(re_sub(s, "}"), "]")

\* The two substitutions run over the whole text: they drop the structural
\* trailing commas and rewrite every string value that holds a match.
\* Only uuid and title can hold one (see the module comment).
SanitizeRecord(r) ==
    [r EXCEPT !.uuid = SanitizeStr(r.uuid), !.title = SanitizeStr(r.title)]

SanitizeText(text) ==
    IF text.shape = "truncated" THEN text
    ELSE [text EXCEPT !.trailing = FALSE, 
               !.records = [i \in 1..Len(text.records) |-> SanitizeRecord(text.records[i])]]

(***************************************************************************)
(* load: the result is what the caller gets: raised (an exception left     *)
(* the function), is_list (the value returned is a list) and items.        *)
(***************************************************************************)
Returned(items) == [raised |-> FALSE, is_list |-> TRUE, items |-> items]
ReturnedNonList == [raised |-> FALSE, is_list |-> FALSE, items |-> <<>>]
Raised == [raised |-> TRUE, is_list |-> FALSE, items |-> <<>>]

\* load_arweave_index without the check that data["files"] is a list
load_arweave_index_no_list_check(index_file) ==
    IF ~Exists(index_file) THEN Returned(<<>>)
    ELSE LET data == json_loads(SanitizeText(index_file))
         IN  IF data = JSONDecodeError THEN Returned(<<>>)
             ELSE IF data.shape # "object" \/ data.key # "files" THEN Returned(<<>>)
             ELSE IF ~data.is_list THEN ReturnedNonList
             ELSE Returned(data.records)

load_arweave_index(index_file) ==
    IF ~Exists(index_file) THEN Returned(<<>>)
    ELSE LET data == json_loads(SanitizeText(index_file))
         IN  IF data = JSONDecodeError THEN Returned(<<>>)       \* except Exception
             ELSE IF data.shape # "object" \/ data.key # "files" THEN Returned(<<>>)
             ELSE IF ~data.is_list THEN Returned(<<>>)
             ELSE Returned(data.records)

load_atproto_posts_index(index_file) ==
    IF ~Exists(index_file) THEN Returned(<<>>)
    ELSE LET data == json_loads(index_file)
         IN  IF data = JSONDecodeError THEN Returned(<<>>)       \* except Exception
             ELSE IF data.shape # "object" \/ data.key # "posts" THEN Returned(<<>>)
             ELSE IF ~data.is_list THEN Returned(<<>>)
             ELSE Returned(data.records)

(***************************************************************************)
(* save, one system call per step.  A save state holds the files the call  *)
(* touches, the position in the function, the value returned ("True",      *)
(* "False", "raise" for an exception that leaves the function), whether a  *)
(* call failed and whether a restore from the backup was attempted.        *)
(***************************************************************************)
SaveState(pc, idx, bak, tmp, ret, failed, restore) ==
    [pc |-> pc, idx |-> idx, bak |-> bak, tmp |-> tmp, ret |-> ret,
     failed |-> failed, restore |-> restore]

SaveEntry(idx, bak, tmp) == SaveState("mkdir", idx, bak, tmp, "none", {}, FALSE)

Fail(s, step) == [s EXCEPT !.failed = @ \cup {step}]

save_arweave_index_step(index_data, s) ==
    CASE s.pc = "mkdir" ->
           \* index_file.parent.mkdir(...), outside every try block
           { [s EXCEPT !.pc = "backup"],
             [Fail(s, "mkdir") EXCEPT !.pc = "returned", !.ret = "raise"] }
      [] s.pc = "backup" ->
           IF ~Exists(s.idx) THEN { [s EXCEPT !.pc = "write_tmp"] }
           ELSE \* shutil.copy2(index_file, backup_file); a failure is only logged
                { [s EXCEPT !.pc = "write_tmp", !.bak = s.idx],
                  [Fail(s, "backup") EXCEPT !.pc = "write_tmp"],
                  [Fail(s, "backup") EXCEPT !.pc = "write_tmp", !.bak = Truncated] }
      [] s.pc = "write_tmp" ->
           \* open(temp_file, "w"); json.dump(archive_data, f, indent=2)
           { [s EXCEPT !.pc = "replace", !.tmp = json_dump("files", index_data)],
             [Fail(s, "write") EXCEPT !.pc = "restore"],
             [Fail(s, "write") EXCEPT !.pc = "restore", !.tmp = Truncated] }
      [] s.pc = "replace" ->
           \* os.replace(temp_file, index_file)
           { [s EXCEPT !.pc = "returned", !.ret = "True", !.idx = s.tmp, !.tmp = Absent],
             [Fail(s, "replace") EXCEPT !.pc = "restore"] }
      [] s.pc = "restore" ->
           IF ~Exists(s.bak) THEN { [s EXCEPT !.pc = "returned", !.ret = "False"] }
           ELSE \* shutil.copy2(backup_file, index_file) opens the index for writing
                { [s EXCEPT !.pc = "restore_copy", !.restore = TRUE, !.idx = Truncated],
                  [Fail(s, "restore") EXCEPT !.pc = "returned", !.restore = TRUE, !.ret = "False"] }
      [] s.pc = "restore_copy" ->
           { [s EXCEPT !.pc = "returned", !.ret = "False", !.idx = s.bak],
             [Fail(s, "restore") EXCEPT !.pc = "returned", !.ret = "False"] }
      [] OTHER -> {}

save_atproto_posts_index_step(posts_data, s) ==
    CASE s.pc = "mkdir" ->
           \* index_file.parent.mkdir(...), inside the try block
           { [s EXCEPT !.pc = "open"],
             [Fail(s, "mkdir") EXCEPT !.pc = "returned", !.ret = "False"] }
      [] s.pc = "open" ->
           \* open(index_file, "w") empties the index file itself
           { [s EXCEPT !.pc = "dump", !.idx = Truncated],
             [Fail(s, "write") EXCEPT !.pc = "returned", !.ret = "False"] }
      [] s.pc = "dump" ->
           \* json.dump({"posts": posts_data}, f, indent=2)
           { [s EXCEPT !.pc = "returned", !.ret = "True", !.idx = json_dump("posts", posts_data)],
             [Fail(s, "write") EXCEPT !.pc = "returned", !.ret = "False"] }
      [] OTHER -> {}

SaveStep(net, data, s) ==
    IF net = "arweave" THEN save_arweave_index_step(data, s)
    ELSE save_atproto_posts_index_step(data, s)

\* The states in which a whole call of save can end.
RECURSIVE RunSave(_, _, _)
RunSave(net, data, S) ==
    IF \A s \in S : s.pc = "returned" THEN S
    ELSE RunSave(net, data,
                 UNION { IF s.pc = "returned" THEN {s} ELSE SaveStep(net, data, s) : s \in S })

save_arweave_index(index_data, idx, bak, tmp) ==
    RunSave("arweave", index_data, {SaveEntry(idx, bak, tmp)})

save_atproto_posts_index(posts_data, idx, bak) ==
    RunSave("atproto", posts_data, {SaveEntry(idx, bak, Absent)})

(***************************************************************************)
(* Records                                                                 *)
(***************************************************************************)
Link(tx_id) == <<"https://www.arweave.net/", tx_id>>

ArweaveHash(tx_id, timestamp) ==
    [hash |-> tx_id, timestamp |-> timestamp, link |-> Link(tx_id)]

\* a record written without its history
ArweaveRecord_no_history(uuid, title, hashes) ==
    [uuid |-> uuid, title |-> title, arweave_hashes |-> <<>>]

ArweaveRecord(uuid, title, hashes) ==
    [uuid |-> uuid, title |-> title, arweave_hashes |-> hashes]

PostMetadata(uuid, title, url, posted_at) ==
    [uuid |-> uuid, title |-> title, url |-> url, posted_at |-> posted_at]

Uuids(records) == {records[i].uuid : i \in 1..Len(records)}
UniqueUuids(records) ==
    \A i, j \in 1..Len(records) : records[i].uuid = records[j].uuid => i = j

Nets == {"arweave", "atproto"}
KeyOf(net) == IF net = "arweave" THEN "files" ELSE "posts"

(***************************************************************************)
(* Store harness: calls of save on either index, one system call per       *)
(* step, from hand-edited or program-written files, with a reader that     *)
(* may look at the index file between any two system calls.                *)
(***************************************************************************)
StoreUuids == {<<"a">>, <<"b">>}
StoreTitles == {<<"T">>, <<"T", ",", " ", "}">>, <<",", "]">>}
StoreArweaveRecords ==
    {ArweaveRecord(u, t, <<ArweaveHash("h1", 1)>>) : u \in StoreUuids, t \in StoreTitles}
StorePostRecords ==
    {PostMetadata(u, t, "https://bsky.app/profile/x/post/1", 1) :
        u \in StoreUuids, t \in StoreTitles}
StoreRecords(net) == IF net = "arweave" THEN StoreArweaveRecords ELSE StorePostRecords

\* the valid record sequences: identifiers pairwise distinct
RecordSeqs(net) ==
    {rs \in UNION {[1..n -> StoreRecords(net)] : n \in 0..MaxRecs} : UniqueUuids(rs)}

\* files the program may find: none, unparsable, or JSON of some shape
FoundTexts(net) ==
    {Absent, Truncated,
     Text("array", "", FALSE, FALSE, <<>>),
     Text("object", "other", TRUE, FALSE, <<>>),
     Text("object", KeyOf(net), FALSE, FALSE, <<>>)}
    \cup {Text("object", KeyOf(net), TRUE, tr, <<r>>) :
            tr \in BOOLEAN, r \in {x \in StoreRecords(net) : x.title = <<"T">> /\ x.uuid = <<"a">>}}

SaveIdle == SaveState("idle", Absent, Absent, Absent, "none", {}, FALSE)
StoreIdle == [net |-> "none", data |-> <<>>, prev |-> Absent, calls |-> 0,
              last_clean |-> FALSE, s |-> SaveIdle]
ReaderIdle == [net |-> "none", text |-> Absent, during |-> FALSE, result |-> Returned(<<>>)]
DeployIdle == [stdout |-> <<>>, called |-> FALSE, tx_id |-> <<>>]
ProbeIdle == [net |-> "none", uuid |-> <<>>, snapshot |-> [given |-> FALSE, items |-> <<>>],
              called |-> FALSE, first |-> <<>>, last |-> <<>>]

Load(net, text) ==
    IF net = "arweave" THEN load_arweave_index(text) ELSE load_atproto_posts_index(text)

IndexOf(net) == IF net = "arweave" THEN archive_json ELSE posts_json
BackupOf(net) == IF net = "arweave" THEN archive_bak ELSE posts_bak

(***************************************************************************)
(* Notes of the content directory and their frontmatter.                   *)
(***************************************************************************)
Notes == {"n1", "n2", "n3"}
NoUuid == <<>>
FrontmatterUuid(f) ==
    CASE f = "n1" -> <<"a">> [] f = "n2" -> <<"b">> [] OTHER -> NoUuid
FrontmatterTitle(f) ==
    CASE f = "n1" -> <<"T">> [] f = "n2" -> <<"T", ",", "}">> [] OTHER -> <<"U">>

None == <<>>                       \* Python's None / an empty result
TxId(n) == <<"tx", n>>             \* a transaction id parsed from arkb's output
PostUrl(n) == <<"https://bsky.app/profile/x/post/", n>>
Unextracted == <<"Command succeeded but couldn't extract URL.">>

\* lists of at most n notes in which a note may occur twice
Queues_with_duplicates(n) == UNION {[1..k -> Notes] : k \in 1..n}

\* duplicate-free lists of at most n notes: list(self.queued_files)
Queues(n) ==
    {q \in UNION {[1..k -> Notes] : k \in 1..n} :
        \A i, j \in 1..Len(q) : q[i] = q[j] => i = j}

(***************************************************************************)
(* The transaction id in the output of arkb deploy.  The output is a       *)
(* sequence of one-character strings.                                      *)
(***************************************************************************)
TxIdLen == 43

\* \w of the regular expressions, over the characters the outputs hold
WordChars ==
    {"A", "B", "C", "D", "E", "G", "a", "e", "h", "k", "n", "o", "p", "r", "s", "t",
     "v", "w", "_"}

\* [a-zA-Z0-9_-]
IdChars == WordChars \cup {"-"}

\* "https://arweave.net/"
UrlPrefix ==
    <<"h", "t", "t", "p", "s", ":", "/", "/",
      "a", "r", "w", "e", "a", "v", "e", ".", "n", "e", "t", "/">>

\* [a-zA-Z0-9_-]{43} matches at position i
IdRun(s, i) ==
    /\ i + TxIdLen - 1 <= Len(s)
    /\ \A k \in i..(i + TxIdLen - 1) : s[k] \in IdChars

\* \b before position i: exactly one of the two neighbours is a word
\* character, the ends of the text counting as none
WordBoundary(s, i) ==
    ((i - 1) \in 1..Len(s) /\ s[i - 1] \in WordChars)
       # (i \in 1..Len(s) /\ s[i] \in WordChars)

\* re.search(r"https://arweave\.net/([a-zA-Z0-9_-]{43})", stdout_text):
\* group 1 of the leftmost match, None without a match
re_search_url(s) ==
    LET at == {i \in 1..Len(s) :
                 /\ i + Len(UrlPrefix) - 1 <= Len(s)
                 /\ SubSeq(s, i, i + Len(UrlPrefix) - 1) = UrlPrefix
                 /\ IdRun(s, i + Len(UrlPrefix))}
    IN  IF at = {} THEN <<>>
        ELSE LET i == CHOOSE x \in at : \A y \in at : x <= y
             IN  SubSeq(s, i + Len(UrlPrefix), i + Len(UrlPrefix) + TxIdLen - 1)

\* re.findall(r"\b([a-zA-Z0-9_-]{43})\b", stdout_text) from position i:
\* the matches from the left, none overlapping another
RECURSIVE re_findall_ids(_, _)
re_findall_ids(s, i) ==
    IF i > Len(s) THEN <<>>
    ELSE IF WordBoundary(s, i) /\ IdRun(s, i) /\ WordBoundary(s, i + TxIdLen)
         THEN <<SubSeq(s, i, i + TxIdLen - 1)>> \o re_findall_ids(s, i + TxIdLen)
         ELSE re_findall_ids(s, i + 1)

\* _execute_arkb_deploy, "Extract transaction ID": the value returned for
\* an exit code of zero, None being the empty sequence
extract_tx_id(stdout_text) ==
    LET url_match == re_search_url(stdout_text)
        potential_ids == re_findall_ids(stdout_text, 1)
    IN  IF url_match # <<>> THEN url_match
        ELSE IF potential_ids # <<>> THEN potential_ids[Len(potential_ids)]
        ELSE <<>>

(***************************************************************************)
(* Find-or-append of the two batch drivers.                                *)
(***************************************************************************)
\* the search of the index with a comparison that never succeeds
Matches_never(index, uuid) == {}

\* for entry in index: if entry.get("uuid") == file_uuid
Matches(index, uuid) == {i \in 1..Len(index) : index[i].uuid = uuid}
FirstMatch(index, uuid) == CHOOSE i \in Matches(index, uuid) : \A j \in Matches(index, uuid) : i <= j

\* update_arweave_index assigning the history instead of appending to it
update_arweave_index_overwrite(index_data, file_uuid, title, entry) ==
    IF Matches(index_data, file_uuid) # {}
    THEN [index_data EXCEPT ![FirstMatch(index_data, file_uuid)] =
             [@ EXCEPT !.arweave_hashes = <<entry>>, !.title = title]]
    ELSE Append(index_data, ArweaveRecord(file_uuid, title, <<entry>>))

\* upload_files_to_arweave, "Update index"
update_arweave_index(index_data, file_uuid, title, entry) ==
    IF Matches(index_data, file_uuid) # {}
    THEN [index_data EXCEPT ![FirstMatch(index_data, file_uuid)] =
             [@ EXCEPT !.arweave_hashes = Append(@, entry), !.title = title]]
    ELSE Append(index_data, ArweaveRecord(file_uuid, title, <<entry>>))

\* update_posts_index with found_entry never set
update_posts_index_found_unset(posts_index, file_uuid, title, post_url, timestamp) ==
    Append(IF Matches(posts_index, file_uuid) # {}
           THEN [posts_index EXCEPT ![FirstMatch(posts_index, file_uuid)] =
                    [@ EXCEPT !.url = post_url, !.title = title, !.posted_at = timestamp]]
           ELSE posts_index,
           PostMetadata(file_uuid, title, post_url, timestamp))

\* post_files_to_atproto, "Update existing entry or create new one"
update_posts_index(posts_index, file_uuid, title, post_url, timestamp) ==
    IF Matches(posts_index, file_uuid) # {}
    THEN [posts_index EXCEPT ![FirstMatch(posts_index, file_uuid)] =
             [@ EXCEPT !.url = post_url, !.title = title, !.posted_at = timestamp]]
    ELSE Append(posts_index, PostMetadata(file_uuid, title, post_url, timestamp))

(***************************************************************************)
(* Status resolution.  A snapshot is the index_data argument: a list, or   *)
(* not given (None), in which case the function loads the index file.      *)
(***************************************************************************)
NA == <<"N", "/", "A">>
Snapshot(items) == [given |-> TRUE, items |-> items]
NotGiven == [given |-> FALSE, items |-> <<>>]

\* get_arweave_status with the test for an empty index before the test
\* for a missing identifier
get_arweave_status_index_first(uuid_value, index_data, index_file) ==
    LET data == IF index_data.given THEN index_data.items
                ELSE load_arweave_index(index_file).items
    IN  IF data = <<>> THEN <<"Not uploaded (archive not found or empty)">>
        ELSE IF uuid_value = NA \/ uuid_value = NoUuid THEN <<"No UUID found">>
        ELSE IF Matches(data, uuid_value) = {} THEN <<"Not uploaded">>
        ELSE LET hash_count == Len(data[FirstMatch(data, uuid_value)].arweave_hashes)
             IN  IF hash_count > 0 THEN <<"Uploaded", hash_count>>
                 ELSE <<"Tracked in archive, but no uploads recorded">>

get_arweave_status(uuid_value, index_data, index_file) ==
    IF uuid_value = NA \/ uuid_value = NoUuid THEN <<"No UUID found">>
    ELSE LET data == IF index_data.given THEN index_data.items
                     ELSE load_arweave_index(index_file).items
         IN  IF data = <<>> THEN <<"Not uploaded (archive not found or empty)">>
             ELSE IF Matches(data, uuid_value) = {} THEN <<"Not uploaded">>
             ELSE LET hash_count == Len(data[FirstMatch(data, uuid_value)].arweave_hashes)
                  IN  IF hash_count > 0 THEN <<"Uploaded", hash_count>>
                      ELSE <<"Tracked in archive, but no uploads recorded">>

\* get_atproto_status answering from the presence of the record alone
get_atproto_status_ignores_url(uuid_value, index_data, index_file) ==
    IF uuid_value = NA \/ uuid_value = NoUuid THEN <<"No UUID found">>
    ELSE LET data == IF index_data.given THEN index_data.items
                     ELSE load_atproto_posts_index(index_file).items
         IN  IF data = <<>> THEN <<"Not posted (index not found or empty)">>
             ELSE IF Matches(data, uuid_value) = {} THEN <<"Not posted">>
             ELSE <<"Posted">>

get_atproto_status(uuid_value, index_data, index_file) ==
    IF uuid_value = NA \/ uuid_value = NoUuid THEN <<"No UUID found">>
    ELSE LET data == IF index_data.given THEN index_data.items
                     ELSE load_atproto_posts_index(index_file).items
         IN  IF data = <<>> THEN <<"Not posted (index not found or empty)">>
             ELSE IF Matches(data, uuid_value) = {} THEN <<"Not posted">>
             ELSE IF data[FirstMatch(data, uuid_value)].url # None THEN <<"Posted">>
             ELSE <<"Draft">>

(***************************************************************************)
(* A publish task: run_arweave_upload / run_atproto_post and the batch     *)
(* driver it awaits.  pc is the await the task is suspended at.            *)
(***************************************************************************)
Task(net, files) ==
    [net |-> net, files |-> files, pc |-> "created", i |-> 0, sim |-> FALSE,
     cred |-> FALSE, user_text |-> FALSE, file_uuid |-> NoUuid, title |-> <<>>,
     index_data |-> <<>>, results |-> <<>>, save_ret |-> "none", notes |-> <<>>]

\* a task that never counts as returned
Unfinished_always(tk) == TRUE

Unfinished(tk) == tk.pc # "done"

\* app_notify_callback(message): the message, the file it names, and the
\* counts of a summary
Note(msg, file) == [msg |-> msg, file |-> file, succeeded |-> 0, failed |-> 0]
\* the summary counting every file of the batch as failed
Summary_all_failed(msg, tk) ==
    LET success_count == Cardinality({k \in 1..Len(tk.results) : tk.results[k] # None})
    IN  [msg |-> msg, file |-> "", succeeded |-> success_count, failed |-> Len(tk.files)]

Summary(msg, tk) ==
    LET success_count == Cardinality({k \in 1..Len(tk.results) : tk.results[k] # None})
    IN  [msg |-> msg, file |-> "", succeeded |-> success_count,
         failed |-> Len(tk.files) - success_count]
Notify(tk, note) == [tk EXCEPT !.notes = Append(@, note)]

\* the task has returned: its locals are gone, its results remain
Finish(tk, results) ==
    [tk EXCEPT !.pc = "done", !.i = Len(tk.files) + 1, !.results = results, !.sim = FALSE,
               !.cred = FALSE, !.user_text = FALSE, !.file_uuid = NoUuid, !.title = <<>>,
               !.index_data = <<>>]

\* the loop of upload_files_to_arweave from file j up to its next await;
\* the environment decides whether a file can be read and a wallet is found
RECURSIVE arweave_loop(_, _, _)
arweave_loop(tk, j, test_mode) ==
    IF j > Len(tk.files)
    THEN { Finish(Notify(tk, Summary("Arweave upload finished", tk)), tk.results) }
    ELSE LET f == tk.files[j]
             skipped(msg) ==
                 arweave_loop(Notify([tk EXCEPT !.results = Append(@, None)], Note(msg, f)),
                              j + 1, test_mode)
             awaiting(sim) ==
                 { [tk EXCEPT !.pc = "await_upload", !.i = j, !.sim = sim,
                              !.file_uuid = FrontmatterUuid(f),
                              !.title = FrontmatterTitle(f)] }
         IN  skipped("Error uploading")                \* open(file_path) raised
             \cup (IF FrontmatterUuid(f) = NoUuid
                   THEN skipped("Skipping: No UUID found in frontmatter.")
                   ELSE IF test_mode THEN awaiting(TRUE)           \* asyncio.sleep(0.5)
                   ELSE IF tk.cred THEN awaiting(FALSE)            \* arkb deploy
                   ELSE awaiting(FALSE)                \* _find_wallet_path() again
                        \cup skipped("Failed to upload to Arweave."))

\* upload_files_to_arweave going into its loop without a look at the wallet
upload_files_to_arweave_no_wallet_check(tk, wallet_path, test_mode, index_file) ==
    arweave_loop([Notify(tk, Note("Starting Arweave upload", ""))
                     EXCEPT !.cred = wallet_path,
                            !.index_data = load_arweave_index(index_file).items],
                 1, test_mode)

\* upload_files_to_arweave from its entry up to its first await
upload_files_to_arweave(tk, wallet_path, test_mode, index_file) ==
    IF ~wallet_path /\ ~test_mode
    THEN { Finish(Notify(tk, Note("Arweave upload cannot proceed: Wallet path not found.", "")),
                  [k \in 1..Len(tk.files) |-> None]) }
    ELSE arweave_loop([Notify(tk, Note("Starting Arweave upload", ""))
                          EXCEPT !.cred = wallet_path,
                                 !.index_data = load_arweave_index(index_file).items],
                      1, test_mode)

\* atproto_failed without the notification that names the file as failed
atproto_failed_unreported(tk) ==
    LET tk2 == [tk EXCEPT !.results = <<None>>]
    IN  Finish(Notify(tk2, Summary("AT Protocol posting process completed", tk2)), <<None>>)

\* post_to_atproto returned None: the file is reported and the loop, which
\* has no further file, ends with the summary
atproto_failed(tk) ==
    LET tk2 == Notify([tk EXCEPT !.results = <<None>>],
                      Note("Failed to post to AT Protocol.", tk.files[1]))
    IN  Finish(Notify(tk2, Summary("AT Protocol posting process completed", tk2)), <<None>>)

\* post_files_to_atproto for the one file run_atproto_post hands it, from
\* its entry up to its first await
post_files_to_atproto(tk, credentials, user_text, readable, index_file) ==
    LET f == tk.files[1]
        started == Notify(tk, Note("Starting AT Protocol posting", ""))
    IN  IF ~credentials                      \* TEST_MODE was just set to False
        THEN Finish(Notify(tk, Note("AT Protocol posting cannot proceed: No credentials found.", "")),
                    <<None>>)
        ELSE IF ~user_text
        THEN atproto_failed(Notify(started, Note("Cannot post: Empty post content", f)))
        ELSE [started EXCEPT !.pc = "await_cli", !.i = 1, !.cred = TRUE, !.user_text = TRUE,
                        !.file_uuid = IF readable THEN FrontmatterUuid(f) ELSE NoUuid,
                        !.title = IF readable THEN FrontmatterTitle(f) ELSE <<f>>,
                        !.index_data = load_atproto_posts_index(index_file).items]

(***************************************************************************)
(* The content tree and the widgets.  The tree is the one load_directory   *)
(* builds from a content directory that does not change: d1 holds n1 and   *)
(* the directory d2, d2 holds n2, d3 holds no file node (its only markdown *)
(* file is hidden), n3 lies in the root and is an empty file.  A path is   *)
(* the name of its node; "None" is no path.                                *)
(***************************************************************************)
DirNodes == {"root", "d1", "d2", "d3"}

\* node.children
Children(node) ==
    CASE node = "root" -> {"d1", "d3", "n3"}
      [] node = "d1" -> {"n1", "d2"}
      [] node = "d2" -> {"n2"}
      [] OTHER -> {}

RECURSIVE find_child_file_nodes(_)
find_child_file_nodes(parent_node) ==
    UNION { IF child \in DirNodes THEN find_child_file_nodes(child) ELSE {child} :
               child \in Children(parent_node) }

\* toggle_directory_selection flipping each file of the subtree by itself
toggle_directory_selection_per_file(node, queued) ==
    LET child_file_paths == find_child_file_nodes(node)
    IN  (queued \ child_file_paths) \cup (child_file_paths \ queued)

\* ContentTree.toggle_directory_selection: the selection it leaves
toggle_directory_selection(node, queued) ==
    LET child_file_paths == find_child_file_nodes(node)
        all_selected == \A p \in child_file_paths : p \in queued
    IN  IF child_file_paths = {} THEN queued
        ELSE IF all_selected THEN queued \ child_file_paths
        ELSE queued \cup child_file_paths

\* toggle_file_selection that only ever adds
toggle_file_selection_add_only(node, queued) ==
    IF node \in DirNodes THEN queued ELSE queued \cup {node}

\* ContentTree.toggle_file_selection: the selection it leaves
toggle_file_selection(node, queued) ==
    IF node \in DirNodes THEN queued
    ELSE IF node \in queued THEN queued \ {node}
    ELSE queued \cup {node}

\* list(self.queued_files): the set in some order
get_queued_files(queued) ==
    {q \in [1..Cardinality(queued) -> queued] :
        \A i, j \in 1..Cardinality(queued) : q[i] = q[j] => i = j}

NoStatus == <<"N/A">>

\* post.get("uuid", "N/A") of FilePreview.update_preview
PreviewUuid(file_path) ==
    IF FrontmatterUuid(file_path) = NoUuid THEN NA ELSE FrontmatterUuid(file_path)

\* FilePreview.update_preview for a readable file or None: the cache it
\* leaves and the status it shows
FilePreview_update_preview(file_path, cache, index_file) ==
    IF file_path = "None" THEN [cache |-> cache, status |-> NoStatus]
    ELSE LET data == IF cache.given THEN cache
                     ELSE Snapshot(load_arweave_index(index_file).items)
         IN  [cache |-> data,
              status |-> get_arweave_status(PreviewUuid(file_path), data, index_file)]

\* ATProtoPreview.update_preview for a readable file or None
ATProtoPreview_update_preview(file_path, cache, index_file) ==
    IF file_path = "None" \/ FrontmatterUuid(file_path) = NoUuid
    THEN [cache |-> cache, status |-> NoStatus]
    ELSE LET data == IF cache.given THEN cache
                     ELSE Snapshot(load_atproto_posts_index(index_file).items)
         IN  [cache |-> data,
              status |-> get_atproto_status(FrontmatterUuid(file_path), data, index_file)]

\* estimate_upload_cost: proportional to the size of the file
Cost(file_path) ==
    CASE file_path = "n1" -> 1 [] file_path = "n2" -> 2 [] OTHER -> 0

RECURSIVE TotalCost(_)
TotalCost(files) ==
    IF files = {} THEN 0
    ELSE LET f == CHOOSE x \in files : TRUE IN Cost(f) + TotalCost(files \ {f})

\* get_wallet_balance: what arkb balance printed if it ran and exited with
\* zero and a parsable amount, 0.0 otherwise
get_wallet_balance(wallet_path, outcome, amount) ==
    IF ~wallet_path THEN 0
    ELSE IF outcome = "token" THEN amount
    ELSE 0

StatsIdle == [file_count |-> 0, total_cost |-> 0, wallet_balance |-> 0, probed |-> "never"]

\* An update_arweave_stats_async task: created, or suspended in
\* get_wallet_balance with the list of files it was started with.
StatsTask(pc, files) == [pc |-> pc, files |-> files]

\* stats_tasks: `followed` tells whether the specification follows the
\* stats tasks step by step (then `pending` holds the unfinished ones in
\* creation order and `created` counts them all) or lets a task run as
\* one later step, update_arweave_context.
StatsTasks(followed, created, pending) ==
    [followed |-> followed, created |-> created, pending |-> pending]

\* the first task of on_mount is the one task there is
StatsMounted == StatsTasks(TRUE, 1, <<StatsTask("created", {})>>)

CanCreateStatsTask == ~stats_tasks.followed \/ stats_tasks.created < MaxStatsTasks

\* asyncio.create_task(self.update_arweave_stats_async())
create_stats_task(st) ==
    IF st.followed
    THEN [st EXCEPT !.created = @ + 1, !.pending = Append(@, StatsTask("created", {}))]
    ELSE st

WidgetsIdle ==
    /\ queued_files = {}
    /\ queued_files_for_arweave = {}
    /\ current_file = "None"
    /\ arweave_index_data = NotGiven
    /\ post_index_data = NotGiven
    /\ file_status = NoStatus
    /\ post_status = NoStatus
    /\ stats = StatsIdle
    /\ active_protocol = "arweave"

UiIdle ==
    /\ WidgetsIdle
    /\ stats_tasks = StatsTasks(FALSE, 0, <<>>)

(***************************************************************************)
(* The app                                                                 *)
(***************************************************************************)
OutIdle == [notified |-> <<>>, done |-> FALSE, files |-> <<>>, results |-> <<>>]

\* what a step of a batch driver that leaves the task as tk has notified,
\* and what the driver returned if it returned
Output(tk) ==
    [notified |-> tk.notes, done |-> ~Unfinished(tk),
     files |-> IF Unfinished(tk) THEN <<>> ELSE tk.files,
     results |-> IF Unfinished(tk) THEN <<>> ELSE tk.results]

EngineIdle ==
    /\ TEST_MODE = [net \in Nets |-> FALSE]
    /\ active_arweave_task = "None"
    /\ tasks = <<>>
    /\ confirmed = 0
    /\ clock = 1
    /\ faults = 0
    /\ saved = {}
    /\ out = OutIdle

AppIdle ==
    /\ EngineIdle
    /\ UiIdle

OldArchive == json_dump("files", <<ArweaveRecord(<<"a">>, <<"O">>, <<ArweaveHash(TxId(0), 0)>>)>>)
OldPosts == json_dump("posts", <<PostMetadata(<<"a">>, <<"O">>, PostUrl(0), 0)>>)

Init ==
    /\ \E fresh \in BOOLEAN :
         /\ archive_json = IF fresh THEN Absent ELSE OldArchive
         /\ posts_json = IF fresh THEN Absent ELSE OldPosts
    /\ archive_bak = Absent
    /\ archive_tmp = Absent
    /\ posts_bak = Absent
    /\ AppIdle
    /\ store = StoreIdle
    /\ reader = ReaderIdle
    /\ probe = ProbeIdle
    /\ deploy = DeployIdle

Running == 1..Len(tasks)

\* asyncio.create_task(...)
Spawn(tk) ==
    /\ confirmed < MaxBatches
    /\ Len(tasks) < MaxLive
    /\ tasks' = Append(tasks, tk)
    /\ confirmed' = confirmed + 1

\* run_arweave_upload / run_atproto_post after the batch driver returned,
\* over the index files as the batch left them: the Arweave cache is
\* cleared, the previews are updated
AfterCycle(net) ==
    LET p == FilePreview_update_preview(current_file,
                                        IF net = "arweave" THEN NotGiven ELSE arweave_index_data,
                                        archive_json')
        q == ATProtoPreview_update_preview(current_file, post_index_data, posts_json')
    IN  /\ arweave_index_data' = p.cache
        /\ file_status' = IF current_file = "None" THEN file_status ELSE p.status
        /\ post_index_data' = IF net = "arweave" THEN post_index_data ELSE q.cache
        /\ post_status' = IF net = "arweave" THEN post_status ELSE q.status
        /\ UNCHANGED <<queued_files, queued_files_for_arweave, current_file, stats,
                       stats_tasks, active_protocol>>

\* task t goes on as tk, or is gone once it has returned
Continue(t, tk) ==
    /\ tasks' = IF Unfinished(tk) THEN [tasks EXCEPT ![t] = [tk EXCEPT !.notes = <<>>]]
                ELSE SubSeq(tasks, 1, t - 1) \o SubSeq(tasks, t + 1, Len(tasks))
    /\ out' = Output(tk)
    /\ IF Unfinished(tk) THEN UNCHANGED uivars ELSE AfterCycle(tk.net)

\* JasperApp.action_confirm_arweave_upload with `files` queued; the stats
\* widget holds the balance and cost some earlier probe left there
action_confirm_arweave_upload(files, affordable) ==
    /\ files # <<>>
    /\ active_arweave_task = "None"
    /\ TEST_MODE["arweave"] \/ affordable
    /\ Spawn(Task("arweave", files))
    /\ out' = OutIdle
    /\ UNCHANGED <<diskvars, harnessvars, uivars, TEST_MODE, active_arweave_task, clock, faults, saved>>

\* JasperApp.action_confirm_atproto_post with `composer_file` as the
\* current_file of the composer
action_confirm_atproto_post(composer_file, credentials) ==
    /\ credentials \/ TEST_MODE["atproto"]
    /\ Spawn(Task("atproto", <<composer_file>>))
    /\ out' = OutIdle
    /\ UNCHANGED <<diskvars, harnessvars, uivars, TEST_MODE, active_arweave_task, clock, faults, saved>>

\* JasperApp.action_toggle_arweave_test_mode / action_toggle_atproto_test_mode
action_toggle_test_mode(net) ==
    /\ net = "arweave" => CanCreateStatsTask
    /\ TEST_MODE' = [TEST_MODE EXCEPT ![net] = ~@]
    /\ stats_tasks' = IF net = "arweave" THEN create_stats_task(stats_tasks) ELSE stats_tasks
    /\ out' = OutIdle
    /\ UNCHANGED <<diskvars, harnessvars, active_arweave_task, tasks, confirmed, clock, faults, saved,
                   queued_files, queued_files_for_arweave, current_file, arweave_index_data,
                   post_index_data, file_status, post_status, stats, active_protocol>>

\* JasperApp.run_arweave_upload starts running
run_arweave_upload(t, wallet_path) ==
    /\ tasks[t].net = "arweave" /\ tasks[t].pc = "created"
    /\ UNCHANGED <<diskvars, harnessvars, TEST_MODE, active_arweave_task, confirmed, clock, faults, saved>>
    /\ \E tk \in upload_files_to_arweave(tasks[t], wallet_path, TEST_MODE["arweave"], archive_json) :
         Continue(t, tk)

\* JasperApp.run_atproto_post starts running
run_atproto_post(t, credentials, user_text, readable) ==
    /\ tasks[t].net = "atproto" /\ tasks[t].pc = "created"
    /\ TEST_MODE' = [TEST_MODE EXCEPT !["atproto"] = FALSE]
    /\ UNCHANGED <<diskvars, harnessvars, active_arweave_task, confirmed, clock, faults, saved>>
    /\ Continue(t, post_files_to_atproto(tasks[t], credentials, user_text, readable, posts_json))

\* the saves a batch may see: within the budget of faulty saves
Faulty(s) == IF s.failed = {} THEN 0 ELSE 1
Affordable(outs) == {s \in outs : faults + Faulty(s) <= MaxFaults}

\* what the external tool can do: arkb deploy / bsky post
ToolOutcomes == {"token", "nonzero", "no_token", "not_found"}

\* arweave_upload_returns with an index in memory that drops the entry of
\* a file whose save did not return True
arweave_upload_returns_forgets_failed(t, outcome) ==
    LET tk == tasks[t]
        f == tk.files[tk.i]
    IN
    /\ tk.net = "arweave" /\ tk.pc = "await_upload"
    /\ outcome \in ToolOutcomes
    /\ outcome = "token" \/ ~tk.sim
    /\ IF outcome # "token"
       THEN /\ UNCHANGED <<diskvars, clock, faults, saved>>
            /\ \E tk2 \in arweave_loop(Notify([tk EXCEPT !.results = Append(@, None)],
                                             Note("Failed to upload to Arweave.", f)),
                                      tk.i + 1, TEST_MODE["arweave"]) :
                 Continue(t, tk2)
       ELSE LET tx_id == TxId(clock)
                entry == ArweaveHash(tx_id, clock)
                index_data == update_arweave_index(tk.index_data, tk.file_uuid, tk.title, entry)
                notes(ret) ==
                    CASE ret = "True" -> <<Note("Uploaded", f)>>
                      [] ret = "False" ->
                           <<Note("Critical: Failed to save updated Arweave index", f),
                             Note("Uploaded", f)>>
                      [] OTHER -> <<Note("Error uploading", f)>>   \* except Exception
            IN  \E s \in Affordable(save_arweave_index(index_data, archive_json,
                                                       archive_bak, archive_tmp)) :
                  /\ archive_json' = s.idx
                  /\ archive_bak' = s.bak
                  /\ archive_tmp' = s.tmp
                  /\ faults' = faults + Faulty(s)
                  /\ clock' = clock + 1
                  /\ saved' = IF s.ret = "True"
                              THEN saved \cup {[net |-> "arweave", uuid |-> tk.file_uuid, entry |-> entry]}
                              ELSE saved
                  /\ UNCHANGED <<posts_json, posts_bak>>
                  /\ \E tk2 \in arweave_loop([tk EXCEPT !.results = Append(@, tx_id),
                                                        !.index_data = IF s.ret = "True" THEN index_data
                                                                         ELSE tk.index_data,
                                                        !.save_ret = s.ret,
                                                        !.notes = @ \o notes(s.ret)],
                                             tk.i + 1, TEST_MODE["arweave"]) :
                        Continue(t, tk2)
    /\ UNCHANGED <<harnessvars, TEST_MODE, active_arweave_task, confirmed>>

\* the await of upload_to_arweave returns: tx_id for a recognised token,
\* None for a non-zero exit, for output without a token and for a missing
\* executable; the rest of the loop body and the loop up to the next await
\* run
arweave_upload_returns(t, outcome) ==
    LET tk == tasks[t]
        f == tk.files[tk.i]
    IN
    /\ tk.net = "arweave" /\ tk.pc = "await_upload"
    /\ outcome \in ToolOutcomes
    /\ outcome = "token" \/ ~tk.sim
    /\ IF outcome # "token"
       THEN /\ UNCHANGED <<diskvars, clock, faults, saved>>
            /\ \E tk2 \in arweave_loop(Notify([tk EXCEPT !.results = Append(@, None)],
                                             Note("Failed to upload to Arweave.", f)),
                                      tk.i + 1, TEST_MODE["arweave"]) :
                 Continue(t, tk2)
       ELSE LET tx_id == TxId(clock)
                entry == ArweaveHash(tx_id, clock)
                index_data == update_arweave_index(tk.index_data, tk.file_uuid, tk.title, entry)
                notes(ret) ==
                    CASE ret = "True" -> <<Note("Uploaded", f)>>
                      [] ret = "False" ->
                           <<Note("Critical: Failed to save updated Arweave index", f),
                             Note("Uploaded", f)>>
                      [] OTHER -> <<Note("Error uploading", f)>>   \* except Exception
            IN  \E s \in Affordable(save_arweave_index(index_data, archive_json,
                                                       archive_bak, archive_tmp)) :
                  /\ archive_json' = s.idx
                  /\ archive_bak' = s.bak
                  /\ archive_tmp' = s.tmp
                  /\ faults' = faults + Faulty(s)
                  /\ clock' = clock + 1
                  /\ saved' = IF s.ret = "True"
                              THEN saved \cup {[net |-> "arweave", uuid |-> tk.file_uuid, entry |-> entry]}
                              ELSE saved
                  /\ UNCHANGED <<posts_json, posts_bak>>
                  /\ \E tk2 \in arweave_loop([tk EXCEPT !.results = Append(@, tx_id),
                                                        !.index_data = index_data,
                                                        !.save_ret = s.ret,
                                                        !.notes = @ \o notes(s.ret)],
                                             tk.i + 1, TEST_MODE["arweave"]) :
                        Continue(t, tk2)
    /\ UNCHANGED <<harnessvars, TEST_MODE, active_arweave_task, confirmed>>

\* an await of post_to_atproto before the post itself returns:
\* check_bsky_cli_installed, then bsky show-session
atproto_check_returns(t, ok) ==
    LET tk == tasks[t]
        f == tk.files[1]
    IN
    /\ tk.net = "atproto" /\ tk.pc \in {"await_cli", "await_session"}
    /\ UNCHANGED diskvars
    /\ Continue(t, IF ok
                   THEN IF tk.pc = "await_cli" THEN [tk EXCEPT !.pc = "await_session"]
                        ELSE Notify([tk EXCEPT !.pc = "await_post"], Note("Posting to Bluesky...", f))
                   ELSE IF tk.pc = "await_cli"
                        THEN atproto_failed(Notify(tk, Note("Cannot post: bsky CLI not found", f)))
                        ELSE atproto_failed(Notify(tk, Note("Cannot post: Not authenticated with Bluesky", f))))
    /\ UNCHANGED <<harnessvars, TEST_MODE, active_arweave_task, confirmed, clock, faults, saved>>

\* bsky post returns: post_url is None (non-zero exit, or the executable
\* is gone), a url, or the placeholder for output no url could be
\* extracted from
atproto_post_returns(t, outcome) ==
    LET tk == tasks[t]
        f == tk.files[1]
        post_url == CASE outcome = "token" -> PostUrl(clock)
                      [] outcome = "no_token" -> Unextracted
                      [] OTHER -> None
        posted == Notify([tk EXCEPT !.results = <<post_url>>],
                         Note(IF outcome = "token" THEN "Successfully posted to Bluesky"
                              ELSE "Posted to Bluesky successfully", f))
        finished(tk2, ret) ==
            LET tk3 == Notify(tk2, Note("Posted to AT Protocol", f))
            IN  [Finish(Notify(tk3, Summary("AT Protocol posting process completed", tk3)),
                        <<post_url>>) EXCEPT !.save_ret = ret]
    IN
    /\ tk.net = "atproto" /\ tk.pc = "await_post"
    /\ outcome \in ToolOutcomes
    /\ IF post_url = None
       THEN /\ UNCHANGED <<diskvars, clock, faults, saved>>
            /\ Continue(t, atproto_failed(Notify(tk, Note(IF outcome = "nonzero"
                                                         THEN "Failed to post to Bluesky."
                                                         ELSE "Error posting to AT Protocol", f))))
       ELSE IF tk.file_uuid = NoUuid
       THEN /\ UNCHANGED <<diskvars, clock, faults, saved>>
            /\ Continue(t, finished(posted, "none"))
       ELSE LET posts_index == update_posts_index(tk.index_data, tk.file_uuid, tk.title,
                                                  post_url, clock)
            IN  \E s \in Affordable(save_atproto_posts_index(posts_index, posts_json, posts_bak)) :
                  /\ posts_json' = s.idx
                  /\ faults' = faults + Faulty(s)
                  /\ clock' = clock + 1
                  /\ saved' = IF s.ret = "True"
                              THEN saved \cup {[net |-> "atproto", uuid |-> tk.file_uuid,
                                                entry |-> post_url]}
                              ELSE saved
                  /\ UNCHANGED <<archive_json, archive_bak, archive_tmp, posts_bak>>
                  /\ Continue(t, finished(IF s.ret = "True" THEN posted
                                          ELSE Notify(posted, Note("Failed to save updated AT Protocol index", f)),
                                          s.ret))
    /\ UNCHANGED <<harnessvars, TEST_MODE, active_arweave_task, confirmed>>

Confirm(n) ==
    \/ \E files \in Queues(n) : \E affordable \in BOOLEAN :
          action_confirm_arweave_upload(files, affordable)
    \/ \E composer_file \in Notes : \E credentials \in BOOLEAN :
          action_confirm_atproto_post(composer_file, credentials)

Toggle == \E net \in Nets : action_toggle_test_mode(net)

Resume ==
    \/ \E t \in 1..Len(tasks) : \E wallet_path \in BOOLEAN : run_arweave_upload(t, wallet_path)
    \/ \E t \in 1..Len(tasks) : \E credentials, user_text, readable \in BOOLEAN :
          run_atproto_post(t, credentials, user_text, readable)
    \/ \E t \in 1..Len(tasks) : \E outcome \in ToolOutcomes : arweave_upload_returns(t, outcome)
    \/ \E t \in 1..Len(tasks) : \E ok \in BOOLEAN : atproto_check_returns(t, ok)
    \/ \E t \in 1..Len(tasks) : \E outcome \in ToolOutcomes : atproto_post_returns(t, outcome)

\* The app with an operator who may confirm while a batch is running;
\* every batch is of one file.
Next == Confirm(1) \/ Resume

Spec == Init /\ [][Next]_vars

\* The app with an operator who confirms a batch only when no batch is
\* running (batches run one after another) and who may toggle test mode.
NextSeq == (Running = {} /\ Confirm(MaxBatchLen)) \/ Toggle \/ Resume

SpecSeq == Init /\ [][NextSeq]_vars

\* The app with an operator who confirms Arweave batches, one after
\* another, only while simulation mode is on, and who may toggle the mode
\* at any time.
NextSim ==
    \/ (Running = {} /\ TEST_MODE["arweave"] /\
           \E files \in Queues(MaxBatchLen) : \E affordable \in BOOLEAN :
              action_confirm_arweave_upload(files, affordable))
    \/ action_toggle_test_mode("arweave")
    \/ \E t \in 1..Len(tasks) : \E wallet_path \in BOOLEAN : run_arweave_upload(t, wallet_path)
    \/ \E t \in 1..Len(tasks) : \E outcome \in ToolOutcomes : arweave_upload_returns(t, outcome)

SpecSim == Init /\ [][NextSim]_vars

\* The app running one batch, in which every subprocess terminates and
\* the event loop resumes every task that can go on.
NextLive == (confirmed = 0 /\ Confirm(MaxBatchLen)) \/ Resume

SpecLive == Init /\ [][NextLive]_vars /\ WF_vars(Resume)

(***************************************************************************)
(* The operator at the tree and the widgets: selecting nodes, refreshing,  *)
(* confirming what is queued, while the stats tasks the app creates run.   *)
(***************************************************************************)
\* a selection handler whose new queue is the list a running batch reads
on_tree_node_selected_shared_queue(node) ==
    LET path == IF node \in DirNodes THEN "None" ELSE node
        p == FilePreview_update_preview(path, arweave_index_data, archive_json)
        q == ATProtoPreview_update_preview(path, post_index_data, posts_json)
    IN  /\ active_protocol = "arweave" => CanCreateStatsTask
        /\ queued_files' = IF node \in DirNodes
                           THEN toggle_directory_selection(node, queued_files)
                           ELSE toggle_file_selection(node, queued_files)
        /\ current_file' = path
        /\ arweave_index_data' = p.cache
        /\ file_status' = p.status
        /\ post_index_data' = q.cache
        /\ post_status' = q.status
        /\ queued_files_for_arweave' = queued_files'
        /\ stats_tasks' = IF active_protocol = "arweave"
                          THEN create_stats_task(stats_tasks) ELSE stats_tasks
        /\ tasks' = [t \in 1..Len(tasks) |->
                        IF tasks[t].net = "arweave"
                        THEN [tasks[t] EXCEPT !.files = CHOOSE fs \in get_queued_files(queued_files') : TRUE]
                        ELSE tasks[t]]
        /\ out' = OutIdle
        /\ UNCHANGED <<diskvars, harnessvars, stats, active_protocol, TEST_MODE,
                       active_arweave_task, confirmed, clock, faults, saved>>

\* JasperApp.on_tree_node_selected for a directory node or a file node
on_tree_node_selected(node) ==
    LET path == IF node \in DirNodes THEN "None" ELSE node
        p == FilePreview_update_preview(path, arweave_index_data, archive_json)
        q == ATProtoPreview_update_preview(path, post_index_data, posts_json)
    IN  /\ active_protocol = "arweave" => CanCreateStatsTask
        /\ queued_files' = IF node \in DirNodes
                           THEN toggle_directory_selection(node, queued_files)
                           ELSE toggle_file_selection(node, queued_files)
        /\ current_file' = path
        /\ arweave_index_data' = p.cache
        /\ file_status' = p.status
        /\ post_index_data' = q.cache
        /\ post_status' = q.status
        /\ queued_files_for_arweave' = queued_files'
        /\ stats_tasks' = IF active_protocol = "arweave"
                          THEN create_stats_task(stats_tasks) ELSE stats_tasks
        /\ out' = OutIdle
        /\ UNCHANGED <<diskvars, harnessvars, stats, active_protocol, TEST_MODE,
                       active_arweave_task, tasks, confirmed, clock, faults, saved>>

\* JasperApp.action_refresh_tree
action_refresh_tree ==
    /\ CanCreateStatsTask
    /\ current_file' = "None"
    /\ file_status' = NoStatus
    /\ arweave_index_data' = NotGiven
    /\ post_status' = NoStatus
    /\ post_index_data' = NotGiven
    /\ queued_files_for_arweave' = queued_files
    /\ stats_tasks' = create_stats_task(stats_tasks)
    /\ out' = OutIdle
    /\ UNCHANGED <<diskvars, harnessvars, queued_files, stats, active_protocol, TEST_MODE,
                   active_arweave_task, tasks, confirmed, clock, faults, saved>>

\* JasperApp.update_arweave_context, run by a task the app created at
\* mount, selection, refresh, toggle, the end of a batch or the refresh
\* button: the balance probe returns and the stats widget is updated
update_arweave_context(wallet_path, outcome, amount) ==
    /\ stats' = [file_count |-> Cardinality(queued_files_for_arweave),
                 total_cost |-> TotalCost(queued_files_for_arweave),
                 wallet_balance |-> get_wallet_balance(wallet_path, outcome, amount),
                 probed |-> IF wallet_path THEN outcome ELSE "no_wallet"]
    /\ out' = OutIdle
    /\ UNCHANGED <<diskvars, harnessvars, queued_files, queued_files_for_arweave, current_file,
                   arweave_index_data, post_index_data, file_status, post_status,
                   stats_tasks, active_protocol,
                   TEST_MODE, active_arweave_task, tasks, confirmed, clock, faults, saved>>

\* JasperApp.update_atproto_stats_async, run by a task the app created at
\* a toggle, a switch of protocol or the refresh button
update_atproto_stats_async ==
    LET q == ATProtoPreview_update_preview(current_file, post_index_data, posts_json)
    IN  /\ post_index_data' = q.cache
        /\ post_status' = q.status
        /\ out' = OutIdle
        /\ UNCHANGED <<diskvars, harnessvars, queued_files, queued_files_for_arweave,
                       current_file, arweave_index_data, file_status, stats,
                       stats_tasks, active_protocol,
                       TEST_MODE, active_arweave_task, tasks, confirmed, clock, faults, saved>>

Select == \E node \in DirNodes \cup Notes : on_tree_node_selected(node)

UpdateStats ==
    \/ \E wallet_path \in BOOLEAN : \E outcome \in ToolOutcomes : \E amount \in 0..MaxBalance :
          update_arweave_context(wallet_path, outcome, amount)
    \/ update_atproto_stats_async

\* the confirm actions on what the widgets hold
ConfirmQueued ==
    \/ \E files \in get_queued_files(queued_files_for_arweave) :
          action_confirm_arweave_upload(files, ~(stats.wallet_balance < stats.total_cost))
    \/ /\ current_file # "None"
       /\ \E credentials \in BOOLEAN : action_confirm_atproto_post(current_file, credentials)

\* The operator at the tree and the stats widget, up to the confirmation
\* of one batch.
NextTree ==
    \/ (confirmed = 0 /\ Select)
    \/ (confirmed = 0 /\ action_refresh_tree)
    \/ (confirmed = 0 /\ UpdateStats)
    \/ (confirmed = 0 /\ action_toggle_test_mode("arweave"))
    \/ (confirmed = 0 /\ ConfirmQueued)

SpecTree == Init /\ [][NextTree]_vars

\* The operator selects and refreshes, then confirms one batch, which runs
\* to its end; the stats widget is as it was at startup.
NextView ==
    \/ (confirmed = 0 /\ Select)
    \/ (confirmed = 0 /\ action_refresh_tree)
    \/ (confirmed = 0 /\ ConfirmQueued)
    \/ Resume

SpecView == Init /\ [][NextView]_vars

\* The operator selects in the tree at any time, also while the one
\* Arweave batch confirmed from the queue is running.
NextQueue ==
    \/ Select
    \/ (confirmed = 0 /\
           \E files \in get_queued_files(queued_files_for_arweave) :
              action_confirm_arweave_upload(files, ~(stats.wallet_balance < stats.total_cost)))
    \/ \E t \in 1..Len(tasks) : \E wallet_path \in BOOLEAN : run_arweave_upload(t, wallet_path)
    \/ \E t \in 1..Len(tasks) : \E outcome \in ToolOutcomes : arweave_upload_returns(t, outcome)

SpecQueue == Init /\ [][NextQueue]_vars

(***************************************************************************)
(* The stats tasks followed step by step.  A task starts with the list     *)
(* _queued_files_for_arweave holds at that moment, is suspended while arkb *)
(* balance runs, and writes the stats of that list when it resumes.        *)
(***************************************************************************)
Remove(seq, t) == SubSeq(seq, 1, t - 1) \o SubSeq(seq, t + 1, Len(seq))

\* ArweaveQueueStats.update_stats as update_arweave_context calls it
update_stats(files, balance, probed) ==
    [file_count |-> Cardinality(files), total_cost |-> TotalCost(files),
     wallet_balance |-> balance, probed |-> probed]

\* JasperApp.switch_protocol; the task it creates for the AT Protocol
\* widgets has no await and runs at once
switch_protocol(protocol) ==
    LET q == ATProtoPreview_update_preview(current_file, post_index_data, posts_json)
    IN  /\ protocol = "arweave" => CanCreateStatsTask
        /\ active_protocol' = protocol
        /\ stats_tasks' = IF protocol = "arweave"
                          THEN create_stats_task(stats_tasks) ELSE stats_tasks
        /\ post_index_data' = IF protocol = "arweave" THEN post_index_data ELSE q.cache
        /\ post_status' = IF protocol = "arweave" THEN post_status ELSE q.status
        /\ out' = OutIdle
        /\ UNCHANGED <<diskvars, harnessvars, queued_files, queued_files_for_arweave,
                       current_file, arweave_index_data, file_status, stats,
                       TEST_MODE, active_arweave_task, tasks, confirmed, clock, faults, saved>>

\* JasperApp.action_update_arweave_stats
action_update_arweave_stats ==
    /\ CanCreateStatsTask
    /\ stats_tasks' = create_stats_task(stats_tasks)
    /\ out' = OutIdle
    /\ UNCHANGED <<diskvars, harnessvars, queued_files, queued_files_for_arweave, current_file,
                   arweave_index_data, post_index_data, file_status, post_status, stats,
                   active_protocol,
                   TEST_MODE, active_arweave_task, tasks, confirmed, clock, faults, saved>>

\* the event loop starts the oldest task not yet started:
\* update_arweave_stats_async calls update_arweave_context with the list
\* of this moment; without a wallet get_wallet_balance returns 0.0 and
\* nothing suspends the task before update_stats
update_arweave_stats_async(t, wallet_path) ==
    LET files == queued_files_for_arweave
    IN  /\ stats_tasks.followed
        /\ t \in 1..Len(stats_tasks.pending)
        /\ stats_tasks.pending[t].pc = "created"
        /\ \A k \in 1..(t - 1) : stats_tasks.pending[k].pc # "created"
        /\ IF wallet_path
           THEN /\ stats_tasks' = [stats_tasks EXCEPT
                                     !.pending[t] = StatsTask("await_balance", files)]
                /\ UNCHANGED stats
           ELSE /\ stats_tasks' = [stats_tasks EXCEPT !.pending = Remove(@, t)]
                /\ stats' = update_stats(files, get_wallet_balance(FALSE, "none", 0),
                                         "no_wallet")
        /\ out' = OutIdle
        /\ UNCHANGED <<diskvars, harnessvars, queued_files, queued_files_for_arweave,
                       current_file, arweave_index_data, post_index_data, file_status,
                       post_status, active_protocol,
                       TEST_MODE, active_arweave_task, tasks, confirmed, clock, faults, saved>>

\* arkb balance returns to the task suspended in get_wallet_balance; the
\* costs are estimated without another await and update_stats is called
get_wallet_balance_returns(t, outcome, amount) ==
    /\ stats_tasks.followed
    /\ t \in 1..Len(stats_tasks.pending)
    /\ stats_tasks.pending[t].pc = "await_balance"
    /\ stats' = update_stats(stats_tasks.pending[t].files,
                             get_wallet_balance(TRUE, outcome, amount), outcome)
    /\ stats_tasks' = [stats_tasks EXCEPT !.pending = Remove(@, t)]
    /\ out' = OutIdle
    /\ UNCHANGED <<diskvars, harnessvars, queued_files, queued_files_for_arweave,
                   current_file, arweave_index_data, post_index_data, file_status,
                   post_status, active_protocol,
                   TEST_MODE, active_arweave_task, tasks, confirmed, clock, faults, saved>>

\* JasperApp.action_confirm_active_protocol
action_confirm_active_protocol ==
    IF active_protocol = "arweave"
    THEN \E files \in get_queued_files(queued_files_for_arweave) :
            action_confirm_arweave_upload(files, ~(stats.wallet_balance < stats.total_cost))
    ELSE /\ current_file # "None"
         /\ \E credentials \in BOOLEAN : action_confirm_atproto_post(current_file, credentials)

\* the app just mounted, nothing published yet
InitStats ==
    /\ archive_json = Absent
    /\ posts_json = Absent
    /\ archive_bak = Absent
    /\ archive_tmp = Absent
    /\ posts_bak = Absent
    /\ EngineIdle
    /\ WidgetsIdle
    /\ stats_tasks = StatsMounted
    /\ store = StoreIdle
    /\ reader = ReaderIdle
    /\ probe = ProbeIdle
    /\ deploy = DeployIdle

\* what arkb balance can do: print an amount, or be missing
ProbeOutcomes == {"token", "not_found"}

StatsStep ==
    \/ \E t \in 1..Len(stats_tasks.pending) : \E wallet_path \in BOOLEAN :
          update_arweave_stats_async(t, wallet_path)
    \/ \E t \in 1..Len(stats_tasks.pending) :
          \E outcome \in ProbeOutcomes : \E amount \in 0..MaxBalance :
             get_wallet_balance_returns(t, outcome, amount)

\* The operator at the tree and the panels while the stats tasks run, up
\* to the confirmation of one batch.
NextStats ==
    \/ (confirmed = 0 /\ Select)
    \/ (confirmed = 0 /\ action_refresh_tree)
    \/ (confirmed = 0 /\ action_toggle_test_mode("arweave"))
    \/ (confirmed = 0 /\ \E protocol \in Nets : switch_protocol(protocol))
    \/ (confirmed = 0 /\ action_update_arweave_stats)
    \/ (confirmed = 0 /\ StatsStep)
    \/ (confirmed = 0 /\ action_confirm_active_protocol)

SpecStats == InitStats /\ [][NextStats]_vars

\* The harness saves one record sequence, chosen at the start, to one index.
InitStore ==
    /\ \E net \in Nets : \E data \in RecordSeqs(net) :
         /\ store = [StoreIdle EXCEPT !.net = net, !.data = data]
         /\ archive_json \in (IF net = "arweave" THEN FoundTexts(net) ELSE {Absent})
         /\ posts_json \in (IF net = "atproto" THEN FoundTexts(net) ELSE {Absent})
    /\ archive_bak = Absent
    /\ archive_tmp = Absent
    /\ posts_bak \in (IF store.net = "atproto" THEN {Absent, json_dump("posts", <<>>)} ELSE {Absent})
    /\ reader = ReaderIdle
    /\ probe = ProbeIdle
    /\ deploy = DeployIdle
    /\ AppIdle

\* the files as a save state of `net` leaves them
WriteBack(net, s) ==
    IF net = "arweave"
    THEN /\ archive_json' = s.idx
         /\ archive_bak' = s.bak
         /\ archive_tmp' = s.tmp
         /\ UNCHANGED <<posts_json, posts_bak>>
    ELSE /\ posts_json' = s.idx
         /\ UNCHANGED <<archive_json, archive_bak, archive_tmp, posts_bak>>

\* save(records, path) is entered
CallSave ==
    /\ store.s.pc \in {"idle", "returned"}
    /\ store.calls < MaxSaves
    /\ store' = [store EXCEPT
                   !.prev = IndexOf(store.net),
                   !.calls = @ + 1,
                   !.last_clean = (store.s.ret = "True" /\ store.s.failed = {}),
                   !.s = SaveEntry(IndexOf(store.net), BackupOf(store.net),
                                   IF store.net = "arweave" THEN archive_tmp ELSE Absent)]
    /\ reader' = ReaderIdle
    /\ UNCHANGED <<diskvars, appvars, probe, deploy>>

\* the next system call of the save in progress
StoreStep ==
    /\ store.s.pc \notin {"idle", "returned"}
    /\ \E s2 \in SaveStep(store.net, store.data, store.s) :
         /\ store' = [store EXCEPT !.s = s2]
         /\ WriteBack(store.net, s2)
    /\ UNCHANGED <<reader, appvars, probe, deploy>>

\* another process loads the index file
ReaderRead ==
    /\ reader' = [net |-> store.net, text |-> IndexOf(store.net),
                  during |-> (store.s.pc \notin {"idle", "returned"}),
                  result |-> Load(store.net, IndexOf(store.net))]
    /\ UNCHANGED <<diskvars, store, appvars, probe, deploy>>

NextStore ==
    \/ CallSave
    \/ StoreStep
    \/ ReaderRead

SpecStore == InitStore /\ [][NextStore]_vars

(***************************************************************************)
(* Status harness: a caller holds an identifier and a snapshot and asks    *)
(* for the status now and then, while one publish batch runs.              *)
(***************************************************************************)
StatusUuids == {NoUuid, NA, <<"a">>, <<"b">>, <<"c">>}

StatusSnapshots(net) ==
    {NotGiven, Snapshot(<<>>)} \cup
    (IF net = "arweave"
     THEN {Snapshot(<<ArweaveRecord(<<"a">>, <<"T">>, <<>>)>>),
           Snapshot(<<ArweaveRecord(<<"a">>, <<"T">>, <<ArweaveHash(TxId(0), 0)>>)>>),
           Snapshot(<<ArweaveRecord(<<"b">>, <<"T">>, <<ArweaveHash(TxId(0), 0)>>),
                      ArweaveRecord(<<"a">>, <<"T">>,
                                    <<ArweaveHash(TxId(0), 0), ArweaveHash(TxId(1), 1)>>)>>)}
     ELSE {Snapshot(<<PostMetadata(<<"a">>, <<"T">>, None, None)>>),
           Snapshot(<<PostMetadata(<<"a">>, <<"T">>, PostUrl(0), 0)>>),
           Snapshot(<<PostMetadata(<<"b">>, <<"T">>, PostUrl(0), 0),
                      PostMetadata(<<"a">>, <<"T">>, None, None)>>)})

InitStatus ==
    /\ \E fresh \in BOOLEAN :
         /\ archive_json = IF fresh THEN Absent ELSE OldArchive
         /\ posts_json = IF fresh THEN Absent ELSE OldPosts
    /\ archive_bak = Absent
    /\ archive_tmp = Absent
    /\ posts_bak = Absent
    /\ AppIdle
    /\ store = StoreIdle
    /\ reader = ReaderIdle
    /\ \E net \in Nets : \E uuid \in StatusUuids : \E snapshot \in StatusSnapshots(net) :
         probe = [ProbeIdle EXCEPT !.net = net, !.uuid = uuid, !.snapshot = snapshot]
    /\ deploy = DeployIdle

\* get_arweave_status(uuid, index_data) / get_atproto_status(uuid, index_data)
StatusCall ==
    LET status == IF probe.net = "arweave"
                  THEN get_arweave_status(probe.uuid, probe.snapshot, archive_json)
                  ELSE get_atproto_status(probe.uuid, probe.snapshot, posts_json)
    IN  /\ probe' = [probe EXCEPT !.called = TRUE, !.last = status,
                                  !.first = IF probe.called THEN @ ELSE status]
        /\ UNCHANGED <<diskvars, appvars, store, reader, deploy>>

NextStatus ==
    \/ StatusCall
    \/ (confirmed = 0 /\ Confirm(MaxBatchLen))
    \/ Resume

SpecStatus == InitStatus /\ [][NextStatus]_vars

(***************************************************************************)
(* Deploy harness: arkb deploy exits with code zero after printing a few   *)
(* pieces of text, and _execute_arkb_deploy extracts the transaction id.   *)
(***************************************************************************)
Rep(c, n) == [i \in 1..n |-> c]

\* "https://www.arweave.net/"
WwwUrlPrefix ==
    <<"h", "t", "t", "p", "s", ":", "/", "/", "w", "w", "w", ".",
      "a", "r", "w", "e", "a", "v", "e", ".", "n", "e", "t", "/">>

\* what arkb may print: a url of either host with an id, an id by itself,
\* an id that begins with a hyphen, a string one character too long, a
\* word, a url whose last path segment is one character too long
DeployPieces ==
    { UrlPrefix \o Rep("A", TxIdLen),
      WwwUrlPrefix \o Rep("B", TxIdLen),
      Rep("C", TxIdLen),
      <<"-">> \o Rep("D", TxIdLen - 1),
      Rep("E", TxIdLen + 1),
      <<"o", "k">>,
      UrlPrefix \o Rep("G", TxIdLen + 1) }

RECURSIVE JoinPieces(_)
JoinPieces(ps) ==
    IF Len(ps) = 1 THEN ps[1] ELSE ps[1] \o <<" ">> \o JoinPieces(Tail(ps))

DeployOutputs ==
    {JoinPieces(ps) : ps \in UNION {[1..n -> DeployPieces] : n \in 1..MaxPieces}}

InitParse ==
    /\ archive_json = Absent
    /\ posts_json = Absent
    /\ archive_bak = Absent
    /\ archive_tmp = Absent
    /\ posts_bak = Absent
    /\ AppIdle
    /\ store = StoreIdle
    /\ reader = ReaderIdle
    /\ probe = ProbeIdle
    /\ \E stdout_text \in DeployOutputs : deploy = [DeployIdle EXCEPT !.stdout = stdout_text]

\* process.communicate() returned with returncode 0
execute_arkb_deploy_returns ==
    /\ ~deploy.called
    /\ deploy' = [deploy EXCEPT !.called = TRUE, !.tx_id = extract_tx_id(deploy.stdout)]
    /\ UNCHANGED <<diskvars, appvars, store, reader, probe>>

NextParse == execute_arkb_deploy_returns

SpecParse == InitParse /\ [][NextParse]_vars

(***************************************************************************)
(* Publish engine properties (Spec, SpecSeq)                               *)
(***************************************************************************)
IsPrefix(s, t) == Len(s) <= Len(t) /\ SubSeq(t, 1, Len(s)) = s
RecordOf(records, uuid) == records[FirstMatch(records, uuid)]
NewlySaved == saved' \ saved

\* C1: from an index file with pairwise distinct identifiers, after any
\* sequence of publish batches run one after another, neither index file
\* holds two records with the same identifier.
C1_UniqueIdentifiers ==
    UniqueUuids(archive_json.records) /\ UniqueUuids(posts_json.records)

C1_Witness ==
    /\ confirmed >= 2 /\ tasks = <<>>
    /\ Matches(archive_json.records, <<"b">>) # {}
    /\ Len(RecordOf(archive_json.records, <<"b">>).arweave_hashes) >= 2

\* C2: for every interleaving of the publish tasks the app can start, each
\* result a task saved successfully is still in the index file once all
\* tasks have finished (stated for runs in which no system call fails).
Present(e) ==
    IF e.net = "arweave"
    THEN \E i \in 1..Len(archive_json.records) :
            /\ archive_json.records[i].uuid = e.uuid
            /\ \E k \in 1..Len(archive_json.records[i].arweave_hashes) :
                  archive_json.records[i].arweave_hashes[k] = e.entry
    ELSE \E i \in 1..Len(posts_json.records) : posts_json.records[i].uuid = e.uuid

C2_NoLostUpdate ==
    (tasks = <<>> /\ faults = 0) => \A e \in saved : Present(e)

\* C33: at most one Arweave batch started by the app is unfinished at any
\* time: a confirmation while a batch is running starts no second one.
C33_OneArweaveBatch ==
    Cardinality({t \in 1..Len(tasks) : tasks[t].net = "arweave"}) <= 1

\* C3: the history of a record of the content-addressed index file is
\* append-only across batches run one after another, failed backups and
\* saves included: the record stays in the file and its earlier history is
\* a prefix of its later history.
C3_HistoryAppendOnly ==
    [][\A i \in 1..Len(archive_json.records) :
          \E j \in 1..Len(archive_json'.records) :
             /\ archive_json'.records[j].uuid = archive_json.records[i].uuid
             /\ IsPrefix(archive_json.records[i].arweave_hashes,
                         archive_json'.records[j].arweave_hashes)]_vars

\* C4: when upload_files_to_arweave publishes a file whose identifier has
\* a record with a history of length k in the batch's index, the record it
\* saves has a history of length k+1: the k earlier entries in their order,
\* then the entry of the new result token.
C4_AppendsToHistory ==
    [][\A t \in 1..Len(tasks) :
          LET tk == tasks[t] IN
          (/\ tk.net = "arweave" /\ tk.pc = "await_upload"
           /\ \E e \in NewlySaved : e.net = "arweave" /\ e.uuid = tk.file_uuid
           /\ Matches(tk.index_data, tk.file_uuid) # {})
          => LET old == RecordOf(tk.index_data, tk.file_uuid).arweave_hashes
                 new == RecordOf(archive_json'.records, tk.file_uuid).arweave_hashes
             IN  /\ Matches(archive_json'.records, tk.file_uuid) # {}
                 /\ Len(new) = Len(old) + 1
                 /\ SubSeq(new, 1, Len(old)) = old
                 /\ new[Len(new)] = ArweaveHash(TxId(clock), clock)]_vars

C4_Witness ==
    /\ Matches(archive_json.records, <<"a">>) # {}
    /\ RecordOf(archive_json.records, <<"a">>).arweave_hashes
          = <<ArweaveHash(TxId(0), 0), ArweaveHash(TxId(clock - 1), clock - 1)>>
    /\ \E e \in saved : e.net = "arweave" /\ e.entry = ArweaveHash(TxId(clock - 1), clock - 1)

\* C5: when post_files_to_atproto posts a file whose identifier has a
\* record, that record's url and posted_at are overwritten in place with
\* the new values and no record is added: the index holds exactly one
\* post for the identifier.
C5_OverwritesInPlace ==
    [][\A t \in 1..Len(tasks) :
          LET tk == tasks[t] IN
          (/\ tk.net = "atproto" /\ tk.pc = "await_post"
           /\ \E e \in NewlySaved : e.net = "atproto" /\ e.uuid = tk.file_uuid
           /\ Matches(tk.index_data, tk.file_uuid) # {})
          => LET p == FirstMatch(tk.index_data, tk.file_uuid)
                 e == CHOOSE x \in NewlySaved : TRUE
                 new == posts_json'.records
             IN  /\ Len(new) = Len(tk.index_data)
                 /\ new[p] = PostMetadata(tk.file_uuid, tk.title, e.entry, clock)
                 /\ e.entry # tk.index_data[p].url
                 /\ clock # tk.index_data[p].posted_at
                 /\ \A q \in 1..Len(new) : q # p => new[q] = tk.index_data[q]
                 /\ Cardinality(Matches(new, tk.file_uuid)) = 1]_vars

C5_Witness ==
    /\ Cardinality({e \in saved : e.net = "atproto" /\ e.uuid = <<"a">>}) >= 2
    /\ Len(posts_json.records) = 1
    /\ posts_json.records[1].uuid = <<"a">>
    /\ posts_json.records[1].posted_at = clock - 1

(***************************************************************************)
(* Batch driver properties (SpecSeq): one task at a time, so the task of   *)
(* a step is the task at position t before and, unless it returned, after  *)
(* the step.                                                               *)
(***************************************************************************)
NotifiedNext(msg, f) ==
    \E k \in 1..Len(out'.notified) : out'.notified[k].msg = msg /\ out'.notified[k].file = f
ResultsNext(t) == IF out'.done THEN out'.results ELSE tasks'[t].results
GoesOn(t) ==
    \/ out'.done /\ Len(out'.results) = Len(tasks[t].files)
    \/ ~out'.done /\ tasks'[t].i > tasks[t].i

\* C15: a file whose identifier is empty is skipped: the external
\* publishing tool is never invoked for it, in both networks.
C15_IdentifierRequired ==
    \A t \in 1..Len(tasks) :
       tasks[t].pc \in {"await_upload", "await_post"} => tasks[t].file_uuid # NoUuid

\* C16: when the external tool's executable is not found, the whole batch
\* is aborted: no later file of the batch is attempted and a single
\* notification reports the failure.
C16_ToolUnavailableAborts ==
    [][\A t \in 1..Len(tasks) :
          (\/ arweave_upload_returns(t, "not_found")
           \/ (tasks[t].pc = "await_cli" /\ atproto_check_returns(t, FALSE)))
          => /\ out'.done
             /\ Cardinality({k \in 1..Len(out'.notified) : out'.notified[k].file # ""}) = 1]_vars

\* C17: when the external tool exits with code zero but its output holds
\* no recognizable result token, no record is added or changed in the
\* index, the file has no result and it is reported as failed, in both
\* networks.
C17_UnparseableNotRecorded ==
    [][\A t \in 1..Len(tasks) :
          (arweave_upload_returns(t, "no_token") \/ atproto_post_returns(t, "no_token"))
          => /\ UNCHANGED <<archive_json, posts_json>>
             /\ ResultsNext(t)[tasks[t].i] = None
             /\ \/ NotifiedNext("Failed to upload to Arweave.", tasks[t].files[tasks[t].i])
                \/ NotifiedNext("Failed to post to AT Protocol.", tasks[t].files[tasks[t].i])]_vars

\* C18: when the external tool exits with a non-zero code for a file, the
\* file's index record is neither created nor changed, the file has no
\* result in the returned mapping, a failure notification is emitted and
\* the batch goes on to the next file.
C18_ToolFailureSkipsFile ==
    [][\A t \in 1..Len(tasks) :
          (arweave_upload_returns(t, "nonzero") \/ atproto_post_returns(t, "nonzero"))
          => /\ UNCHANGED diskvars
             /\ ~out'.done => tasks'[t].index_data = tasks[t].index_data
             /\ ResultsNext(t)[tasks[t].i] = None
             /\ \/ NotifiedNext("Failed to upload to Arweave.", tasks[t].files[tasks[t].i])
                \/ NotifiedNext("Failed to post to AT Protocol.", tasks[t].files[tasks[t].i])
             /\ GoesOn(t)]_vars

C18_Witness ==
    /\ Len(tasks) = 1 /\ tasks[1].net = "arweave" /\ tasks[1].pc = "await_upload"
    /\ tasks[1].i = 2 /\ tasks[1].results = <<None>>
    /\ out.notified = <<Note("Failed to upload to Arweave.", tasks[1].files[1])>>

\* C19: when the index save fails after a successful publish, a critical
\* notification is emitted, the file's entry in the results holds its
\* result token and the batch continues with the next file.
C19_SaveFailureIsCritical ==
    [][\A t \in 1..Len(tasks) :
          (/\ tasks[t].pc \in {"await_upload", "await_post"}
           /\ clock' = clock + 1 /\ saved' = saved)
          => /\ \/ NotifiedNext("Critical: Failed to save updated Arweave index",
                                tasks[t].files[tasks[t].i])
                \/ NotifiedNext("Failed to save updated AT Protocol index",
                                tasks[t].files[tasks[t].i])
             /\ ResultsNext(t)[tasks[t].i] # None
             /\ GoesOn(t)]_vars


\* C20: per-file failures do not abort the batch: provided every external
\* subprocess terminates, the driver of a batch of n files eventually
\* returns with an outcome (a result token or none) for each of the n
\* files, whatever failure an earlier file of the batch met.
C20_EveryFileProcessed ==
    \A n \in 1..MaxBatchLen :
       (tasks # <<>> /\ Len(tasks[1].files) = n)
          ~> (out.done /\ Len(out.files) = n /\ Len(out.results) = n)

C20_Witness ==
    /\ out.done /\ Len(out.files) = 2
    /\ out.results[1] = None /\ out.results[2] # None
    /\ faults = 1

\* C21: a batch that passes its credential check notifies its start first,
\* in the step that starts it, and exactly one summary last, in the step
\* in which it returns; the summary's counts add up to the number of files
\* and its success count is the number of files with a result.
IsSummary(note) ==
    note.msg \in {"Arweave upload finished", "AT Protocol posting process completed"}
IsStart(note) == note.msg \in {"Starting Arweave upload", "Starting AT Protocol posting"}
Summaries(notified) == {k \in 1..Len(notified) : IsSummary(notified[k])}

C21_OneSummary ==
    [][(tasks # <<>> /\ tasks' # tasks) =>
          LET tk == tasks[1]
              n == out'.notified
              passed == tk.pc # "created" \/ (n # <<>> /\ IsStart(n[1]))
          IN  /\ Summaries(n) # {} => (out'.done /\ passed /\ Summaries(n) = {Len(n)})
              /\ \A k \in 1..Len(n) : IsStart(n[k]) => (k = 1 /\ tk.pc = "created")
              /\ (out'.done /\ passed) =>
                    /\ Summaries(n) = {Len(n)}
                    /\ n[Len(n)].succeeded + n[Len(n)].failed = Len(tk.files)
                    /\ n[Len(n)].succeeded
                          = Cardinality({k \in 1..Len(out'.results) : out'.results[k] # None})]_vars

C21_Witness ==
    /\ out.done /\ Len(out.files) = 2
    /\ out.notified # <<>>
    /\ IsSummary(out.notified[Len(out.notified)])
    /\ out.notified[Len(out.notified)].succeeded = 1
    /\ out.notified[Len(out.notified)].failed = 1

\* C22: the per-file workflow is linear with no retry: every step of a
\* batch moves it to a later file or to a later stage of the same file,
\* the outcomes of the earlier files stay as they are, and the file the
\* external tool is invoked for was not invoked for earlier in the batch.
Stage(tk) ==
    CASE tk.pc = "created" -> 0
      [] tk.pc = "await_cli" -> 1
      [] tk.pc = "await_session" -> 2
      [] tk.pc \in {"await_upload", "await_post"} -> 3
      [] OTHER -> 4

C22_LinearNoRetry ==
    [][(tasks # <<>> /\ tasks' # tasks /\ tasks' # <<>>) =>
          LET tk == tasks[1]
              tk2 == tasks'[1]
          IN  /\ tk2.files = tk.files
              /\ \/ tk2.i > tk.i
                 \/ tk2.i = tk.i /\ Stage(tk2) > Stage(tk)
              /\ IsPrefix(tk.results, tk2.results)
              /\ Len(tk2.results) = tk2.i - 1
              /\ Stage(tk2) = 3 => \A k \in 1..(tk2.i - 1) : tk.files[k] # tk.files[tk2.i]]_vars

C22_Witness ==
    /\ Len(tasks) = 1 /\ tasks[1].pc = "await_upload" /\ tasks[1].i = 2
    /\ tasks[1].results[1] = None
    /\ tasks[1].files[1] # tasks[1].files[2]

\* C23: a batch that starts running while its network's simulation mode is
\* active leaves the mode active and spawns no subprocess: wherever it
\* waits, it waits for a synthesized result; and a synthesized result is
\* the file's result in the batch.
C23_SimulationReplacesInvoke ==
    [][(tasks # <<>> /\ tasks' # tasks) =>
          LET tk == tasks[1]
          IN  /\ (tk.pc = "created" /\ TEST_MODE[tk.net]) =>
                    /\ TEST_MODE'[tk.net]
                    /\ tasks' # <<>> => tasks'[1].sim
              /\ tk.sim => ResultsNext(1)[tk.i] # None]_vars

\* C36: under SpecSim, where every batch is confirmed while Arweave
\* simulation mode is on, no batch ever waits for the real deploy
\* subprocess, whenever the operator toggles the mode.
C36_SimulatedBatchStaysSimulated ==
    \A t \in 1..Len(tasks) : tasks[t].pc = "await_upload" => tasks[t].sim

\* C37: when a save of an Arweave batch returns True, the index file it
\* wrote holds the history entry of every earlier file of the batch that
\* has a result, those whose own save failed included, next to the entry
\* of the file just uploaded.
C37_FailedSaveCarriedOver ==
    [][\A t \in 1..Len(tasks) :
          LET tk == tasks[t] IN
          (/\ tk.net = "arweave" /\ tk.pc = "await_upload"
           /\ \E e \in NewlySaved : e.net = "arweave")
          => \A k \in 1..tk.i :
                LET token == IF k = tk.i THEN TxId(clock) ELSE tk.results[k]
                IN  token # None =>
                       \E i \in 1..Len(archive_json'.records) :
                          /\ archive_json'.records[i].uuid = FrontmatterUuid(tk.files[k])
                          /\ \E h \in 1..Len(archive_json'.records[i].arweave_hashes) :
                                archive_json'.records[i].arweave_hashes[h].hash = token]_vars

\* the index file holds an entry whose own save did not return True, and
\* a later entry of the same batch whose save did
C37_Witness ==
    /\ faults = 1 /\ out.done /\ Len(out.files) = 2
    /\ out.results[1] # None /\ out.results[2] # None
    /\ \E i, j \in 1..Len(archive_json.records) :
          /\ i # j
          /\ \E h \in 1..Len(archive_json.records[i].arweave_hashes) :
                LET e == archive_json.records[i].arweave_hashes[h]
                IN  /\ e.hash = out.results[1]
                    /\ [net |-> "arweave", uuid |-> archive_json.records[i].uuid,
                        entry |-> e] \notin saved
          /\ \E h \in 1..Len(archive_json.records[j].arweave_hashes) :
                LET e == archive_json.records[j].arweave_hashes[h]
                IN  /\ e.hash = out.results[2]
                    /\ [net |-> "arweave", uuid |-> archive_json.records[j].uuid,
                        entry |-> e] \in saved

C39_HistoryNeverEmpty ==
    LET HasHistory(records) ==
            \A i \in 1..Len(records) : Len(records[i].arweave_hashes) >= 1
    IN  /\ HasHistory(archive_json.records)
        /\ \A t \in 1..Len(tasks) :
              tasks[t].net = "arweave" => HasHistory(tasks[t].index_data)

\* a batch has created a record for b and goes on to update the record of a
C39_Witness ==
    /\ Len(tasks) = 1 /\ tasks[1].net = "arweave" /\ tasks[1].pc = "await_upload"
    /\ tasks[1].file_uuid = <<"a">>
    /\ Len(tasks[1].index_data) = 2
    /\ tasks[1].index_data[2].uuid = <<"b">>
    /\ Len(tasks[1].index_data[2].arweave_hashes) = 1
    /\ Len(archive_json.records) = 2
    /\ Len(archive_json.records[1].arweave_hashes) = 2

\* C25: when an Arweave batch starts with no wallet found and simulation
\* mode off, it returns at once: the external tool is not invoked, no
\* index file is written, every file maps to no result and the one
\* notification names the missing wallet.
C25_NoWalletNoPublish ==
    [][\A t \in 1..Len(tasks) :
          (~TEST_MODE["arweave"] /\ run_arweave_upload(t, FALSE))
          => /\ out'.done
             /\ out'.files = tasks[t].files
             /\ out'.results = [k \in 1..Len(tasks[t].files) |-> None]
             /\ out'.notified
                   = <<Note("Arweave upload cannot proceed: Wallet path not found.", "")>>
             /\ UNCHANGED diskvars
             /\ saved' = saved]_vars

C25_Witness ==
    /\ out.done /\ Len(out.files) = 2
    /\ out.notified = <<Note("Arweave upload cannot proceed: Wallet path not found.", "")>>
    /\ out.results = <<None, None>>
    /\ ~TEST_MODE["arweave"]

(***************************************************************************)
(* Index Store properties (SpecStore)                                      *)
(***************************************************************************)
NewText == json_dump(KeyOf(store.net), store.data)
SaveReturned == store.s.pc = "returned"
ReadAfterReturn == reader.net # "none" /\ ~reader.during /\ SaveReturned

\* C6: a reader that loads the index file while a save of it is in progress
\* observes the complete previous contents or the complete new contents.
C6_ReaderSeesWholeIndex ==
    reader.during => reader.text \in {store.prev, NewText}

\* C7: round trip: after save returned True, load on the same path returns
\* a sequence equal to the one saved.
C7_RoundTrip ==
    (ReadAfterReturn /\ store.s.ret = "True") => reader.result = Returned(store.data)

\* C8: saving the same sequence twice in a row leaves the result of load
\* unchanged, and after the second save the .bak sibling holds the contents
\* the index file had immediately before that second save.
C8_SaveTwice ==
    (ReadAfterReturn /\ store.calls >= 2 /\ store.last_clean
        /\ store.s.ret = "True" /\ store.s.failed = {})
    => /\ reader.result = Load(store.net, store.prev)
       /\ BackupOf(store.net) = store.prev

\* C9: load returns the empty sequence, and raises nothing, for an absent
\* file, unparsable content, a top level that is not an object holding the
\* expected key, and a key whose value is not a list.
Unparsable(net, text) ==
    text.shape = "truncated" \/ (net = "atproto" /\ text.shape # "absent" /\ text.trailing)
WrongShape(net, text) ==
    text.shape = "array" \/ (text.shape = "object" /\ text.key # KeyOf(net))
NotAList(net, text) ==
    text.shape = "object" /\ text.key = KeyOf(net) /\ ~text.is_list

C9_LoadDegradesToEmpty ==
    (reader.net # "none"
       /\ \/ ~Exists(reader.text)
          \/ Unparsable(reader.net, reader.text)
          \/ WrongShape(reader.net, reader.text)
          \/ NotAList(reader.net, reader.text))
    => reader.result = Returned(<<>>)

C9_Witness ==
    /\ reader.net = "arweave"
    /\ NotAList("arweave", reader.text)
    /\ reader.result = Returned(<<>>)

\* C10: save does not raise; when creating the parent directory, writing
\* the temporary file or renaming it fails, save attempts to restore the
\* destination from the .bak sibling and returns False.
C10_SaveReportsFailure ==
    SaveReturned =>
      /\ store.s.ret \in {"True", "False"}
      /\ (store.s.failed \cap {"mkdir", "write", "replace"} # {})
           => /\ store.s.ret = "False"
              /\ Exists(store.s.bak) => store.s.restore

\* C35: whenever save_arweave_index returns False, the index file holds
\* what it held immediately before the call, also when the backup copy of
\* the call failed and an older .bak file is there.
C35_FailedSaveKeepsIndex ==
    (SaveReturned /\ store.net = "arweave" /\ store.s.ret = "False")
       => archive_json = store.prev

\* C11: for an index file that is valid JSON but for trailing commas
\* before a closing brace or bracket, load returns the records it returns
\* for the file without those commas, for both indexes.
C11_TrailingCommasTolerated ==
    (reader.net # "none" /\ reader.text.shape = "object" /\ reader.text.trailing)
       => reader.result = Load(reader.net, [reader.text EXCEPT !.trailing = FALSE])

(***************************************************************************)
(* Status resolution properties (SpecStatus)                               *)
(***************************************************************************)
ProbeMatches == Matches(probe.snapshot.items, probe.uuid)
ProbeRecord == probe.snapshot.items[FirstMatch(probe.snapshot.items, probe.uuid)]

\* C12: get_arweave_status applies its rules in priority order: an empty
\* or 'N/A' identifier gives "No UUID found" even for an empty snapshot;
\* otherwise an empty snapshot gives the index-unavailable result;
\* otherwise no record for the identifier gives "Not uploaded"; otherwise
\* "Uploaded (n)" with n the history length when n >= 1 and the
\* tracked-but-no-uploads result when n = 0.
C12_ArweaveStatusRules ==
    (probe.called /\ probe.net = "arweave" /\ probe.snapshot.given) =>
       IF probe.uuid \in {NoUuid, NA} THEN probe.last = <<"No UUID found">>
       ELSE IF probe.snapshot.items = <<>>
            THEN probe.last = <<"Not uploaded (archive not found or empty)">>
       ELSE IF ProbeMatches = {} THEN probe.last = <<"Not uploaded">>
       ELSE IF Len(ProbeRecord.arweave_hashes) >= 1
            THEN probe.last = <<"Uploaded", Len(ProbeRecord.arweave_hashes)>>
       ELSE probe.last = <<"Tracked in archive, but no uploads recorded">>

C12_Witness ==
    /\ probe.called /\ probe.net = "arweave" /\ probe.snapshot.given
    /\ Len(probe.snapshot.items) = 2
    /\ probe.last = <<"Uploaded", 2>>

\* C13: get_atproto_status, for an identifier that is present and a
\* non-empty snapshot, returns "Posted" exactly when the snapshot's record
\* for the identifier has a url set, "Draft" when the record has none, and
\* "Not posted" when no record has the identifier.
C13_AtprotoStatusRules ==
    (/\ probe.called /\ probe.net = "atproto" /\ probe.snapshot.given
     /\ probe.uuid \notin {NoUuid, NA} /\ probe.snapshot.items # <<>>) =>
       /\ probe.last = <<"Posted">> <=> (ProbeMatches # {} /\ ProbeRecord.url # None)
       /\ probe.last = <<"Draft">> <=> (ProbeMatches # {} /\ ProbeRecord.url = None)
       /\ probe.last = <<"Not posted">> <=> ProbeMatches = {}

C13_Witness ==
    /\ probe.called /\ probe.net = "atproto" /\ probe.snapshot.given
    /\ Len(probe.snapshot.items) = 2
    /\ probe.last = <<"Draft">>

ConfirmsArweave == confirmed' = confirmed + 1 /\ tasks'[Len(tasks')].net = "arweave"

\* C24: when the balance probe found the external tool missing, the stats
\* widget holds a balance of 0, and with that balance and the estimated
\* cost of the files now queued, whatever it is, an Arweave batch is
\* confirmed only in simulation mode.
C24_NoUploadWithoutBalance ==
    [][(/\ stats.probed = "not_found"
        /\ stats.total_cost = TotalCost(queued_files_for_arweave)
        /\ ConfirmsArweave)
       => (stats.wallet_balance = 0 /\ TEST_MODE["arweave"])]_vars

\* the files of the tree that lie in directory d or below it
Parent(node) ==
    CASE node \in {"d1", "d3", "n3"} -> "root"
      [] node \in {"n1", "d2"} -> "d1"
      [] node = "n2" -> "d2"
      [] OTHER -> "None"

RECURSIVE IsUnder(_, _)
IsUnder(node, d) ==
    Parent(node) # "None" /\ (Parent(node) = d \/ IsUnder(Parent(node), d))

FilesUnder(d) == {f \in Notes : IsUnder(f, d)}

\* the step selects node d of the tree
Selects(node) == on_tree_node_selected(node)

\* C26: applying toggle_directory_selection twice to the same directory
\* returns the selection to what it was, whether none, some or all of the
\* files of the subtree were selected.
C26_DirectoryToggleTwice ==
    \A d \in DirNodes :
       toggle_directory_selection(d, toggle_directory_selection(d, queued_files))
          = queued_files

\* C27: toggle_directory_selection is all-or-nothing: if every file under
\* the directory is selected, all of them are removed from the selection,
\* otherwise all of them are added; files outside the subtree keep their
\* membership, and a directory with no file beneath it changes nothing.
C27_DirectoryToggleAllOrNothing ==
    [][\A d \in DirNodes :
          Selects(d) =>
             /\ \A f \in FilesUnder(d) :
                   f \in queued_files' <=> ~(FilesUnder(d) \subseteq queued_files)
             /\ \A f \in Notes \ FilesUnder(d) : f \in queued_files' <=> f \in queued_files
             /\ FilesUnder(d) = {} => queued_files' = queued_files]_vars

\* a directory was selected after a file had been previewed, and every
\* file is selected
C27_Witness ==
    /\ queued_files = {"n1", "n2", "n3"}
    /\ current_file = "None"
    /\ arweave_index_data.given

\* C28: toggle_file_selection flips the membership of the one file
\* selected: a selected file becomes unselected and the reverse, every
\* other file keeps its membership, the list handed on holds the file at
\* most once, and toggling the same file again restores the selection.
C28_FileToggleFlipsOne ==
    [][\A f \in Notes :
          Selects(f) =>
             /\ f \in queued_files' <=> f \notin queued_files
             /\ \A g \in Notes \ {f} : g \in queued_files' <=> g \in queued_files
             /\ \A q \in get_queued_files(queued_files') :
                   Cardinality({k \in 1..Len(q) : q[k] = f}) <= 1
             /\ toggle_file_selection(f, queued_files') = queued_files]_vars

\* the file selected last is unselected by it, another file is selected
C28_Witness ==
    /\ queued_files = {"n2"}
    /\ current_file = "n1"

\* C29: after the refresh action the selection set and the queue handed to
\* the publish step are empty, whatever was selected before.
C29_RefreshClearsSelection ==
    [][action_refresh_tree =>
          (queued_files' = {} /\ queued_files_for_arweave' = {})]_vars

\* C30: when a publish cycle ends, the status shown for the previewed
\* file is the status resolved against the index file as the cycle left
\* it, for either network.
C30_StatusAfterCycle ==
    [][(tasks # <<>> /\ out'.done /\ current_file # "None") =>
          IF tasks[1].net = "arweave"
          THEN file_status'
                  = get_arweave_status(PreviewUuid(current_file), NotGiven, archive_json')
          ELSE FrontmatterUuid(current_file) # NoUuid =>
                  post_status'
                     = get_atproto_status(FrontmatterUuid(current_file), NotGiven, posts_json')]_vars

(***************************************************************************)
(* Stats task properties (SpecStats)                                       *)
(***************************************************************************)
\* C31: once every stats task created so far has finished, the file count
\* and the total estimated cost the stats widget holds are those of the
\* current selection, in whatever order the balance probes returned and
\* whichever panel was visible when the selection changed.
C31_StatsFollowSelection ==
    stats_tasks.pending = <<>> =>
       /\ stats.file_count = Cardinality(queued_files)
       /\ stats.total_cost = TotalCost(queued_files)

\* C34: outside simulation mode a step that starts an Arweave batch finds
\* the wallet balance the stats widget holds at least as large as the
\* total estimated cost of the files the batch is started with, however
\* selections, stats tasks and the confirmation are ordered.
C34_BatchIsAffordable ==
    [][(ConfirmsArweave /\ ~TEST_MODE["arweave"]) =>
          LET files == tasks'[Len(tasks')].files
          IN  stats.wallet_balance >= TotalCost({files[k] : k \in 1..Len(files)})]_vars

(***************************************************************************)
(* Queue properties (SpecQueue)                                            *)
(***************************************************************************)
\* C40: a running Arweave batch processes exactly the files that were
\* queued when it was confirmed: the batch is started with the queue of
\* that moment, its list stays as it is at every step, selections in the
\* tree included, and the driver returns having gone through that list,
\* one result for each file.
C40_BatchKeepsItsQueue ==
    [][/\ Len(tasks') > Len(tasks) =>
             /\ tasks'[Len(tasks')].files \in get_queued_files(queued_files_for_arweave)
             /\ tasks'[Len(tasks')].i = 0
       /\ (tasks # <<>> /\ tasks' # <<>>) => tasks'[1].files = tasks[1].files
       /\ (tasks # <<>> /\ out'.done) =>
             /\ out'.files = tasks[1].files
             /\ Len(out'.results) = Len(out'.files)]_vars

\* the batch returns with the two files it was confirmed with while the
\* queue has become another
C40_Witness ==
    /\ out.done /\ Len(out.files) = 2 /\ Len(out.results) = 2
    /\ out.results[1] # None /\ out.results[2] # None
    /\ {out.files[k] : k \in 1..Len(out.files)} # queued_files_for_arweave
    /\ queued_files_for_arweave # {}

(***************************************************************************)
(* Result parsing properties (SpecParse)                                   *)
(***************************************************************************)
\* the identifiers that follow "https://arweave.net/" in the text
UrlIds(s) ==
    {SubSeq(s, i + Len(UrlPrefix), i + Len(UrlPrefix) + TxIdLen - 1) :
        i \in {j \in 1..Len(s) : /\ j + Len(UrlPrefix) - 1 <= Len(s)
                                  /\ SubSeq(s, j, j + Len(UrlPrefix) - 1) = UrlPrefix
                                  /\ IdRun(s, j + Len(UrlPrefix))}}

\* the 43-character identifiers that stand by themselves in the text:
\* no character of the identifier alphabet before or after
StandaloneIds(s) ==
    {SubSeq(s, i, i + TxIdLen - 1) :
        i \in {j \in 1..Len(s) : /\ IdRun(s, j)
                                  /\ (j = 1 \/ s[j - 1] \notin IdChars)
                                  /\ (j + TxIdLen > Len(s) \/ s[j + TxIdLen] \notin IdChars)}}

\* C32: the transaction id is parsed in a fixed order of preference: if
\* the output holds the url pattern, the id of that url, whatever other
\* 43-character tokens it holds; failing that, a standalone 43-character
\* token of the output if there is one; failing that, nothing.
C32_ParseOrder ==
    deploy.called =>
       IF UrlIds(deploy.stdout) # {} THEN deploy.tx_id \in UrlIds(deploy.stdout)
       ELSE IF StandaloneIds(deploy.stdout) # {}
            THEN deploy.tx_id \in StandaloneIds(deploy.stdout)
       ELSE deploy.tx_id = <<>>

====
